---- MODULE Spec2Model ----
(***************************************************************************)
(* Content-addressed tree store of NonlocalityOS (astraea) with its two    *)
(* engines InMemoryTreeStorage and SQLiteStorage, the LoadCache layered on *)
(* top of them, and the open file buffer of dogbox_tree_editor.            *)
(***************************************************************************)
EXTENDS Integers, Sequences, FiniteSets, Bags, TLC

None == 0

Range(s) == {s[i] : i \in DOMAIN s}
MinOf(S) == CHOOSE x \in S : \A y \in S : x <= y
MaxOf(S) == CHOOSE x \in S : \A y \in S : x >= y

(***************************************************************************)
(* Trees and digests.  A tree is a blob and an ordered list of child       *)
(* references.  The digests are the indices of TreeUniverse: tree 3 is the *)
(* parent of trees 1 and 2 and refers to tree 2 twice, tree 1 is the       *)
(* parent of the leaf 2, so that a parent has a digest below (1) and above *)
(* (3) that of its child.  Trees 1 and 3 share a blob; the blob of tree 2  *)
(* is one that compression shortens.  Tree 4 is a second leaf, which no    *)
(* tree refers to: it is stored and collected independently of the others, *)
(* so that the row ids of the tree table do not follow from the digests.   *)
(***************************************************************************)
TreeUniverse ==
    << [blob |-> <<>>,                 children |-> <<2>>],
       [blob |-> <<7, 7, 7, 7, 7, 7>>, children |-> <<>>],
       [blob |-> <<>>,                 children |-> <<2, 1, 2>>],
       [blob |-> <<8>>,                children |-> <<>>] >>

Digests == DOMAIN TreeUniverse

\* The trees that refer to each other.
ChainDigests == Digests \ {Len(TreeUniverse)}

\* The digest of a tree: the hash covers the blob and the child digests in order.
\* A content that is no tree of the universe hashes to a digest outside of it.
HashedTreeFrom(blob, child_digests) ==
    LET same == {d \in Digests : /\ TreeUniverse[d].blob = blob
                                 /\ TreeUniverse[d].children = child_digests}
    IN IF same = {} THEN Len(TreeUniverse) + 1 ELSE CHOOSE d \in same : TRUE

\* A StrongReference is a digest with a liveness token (None: no token).
StrongReference(impl, digest) == [digest |-> digest, impl |-> impl]

RefDigests(references) == [i \in DOMAIN references |-> references[i].digest]

\* DelayedHashedTree::hash for the Delayed alternative.
DelayedHash(tree, expected_digest) ==
    LET digest == HashedTreeFrom(tree.blob, RefDigests(tree.children))
    IN IF digest = expected_digest THEN digest ELSE None

\* The allocations that can carry the token of a digest.
TokenPool(digest) == {digest, digest + Len(TreeUniverse)}

RootNames == {"a", "b"}

\* What the callers of a specification work with: digests and root names, and what
\* they look at beyond the calls of ObservedOps: the results of further calls, and
\* the database file ("file").
Scope(digests, names, observed) ==
    [digests |-> digests, names |-> names, observed |-> observed]

\* Scaled down from 100 so that automatic collection happens in the model.
minimum_additional_roots_len_for_gc == 2

\* The most copies of one StrongReference the application keeps.
MaxHeld == 2
\* The highest row id the tree table hands out.
MaxRowId == 4
\* The most writes batched in one transaction.
MaxWrites == 4
\* LoadCache capacity.
max_entries == 1
\* TREE_MAX_CHILDREN (CHILD_MAX), the most children of a tree: as many as the widest
\* tree of the universe has.
TREE_MAX_CHILDREN == 3
\* The most reference rows that are changed outside of the program.
MaxDamagedRows == 1

EmptyMap == [x \in {} |-> None]

VARIABLES
    scope,                          \* the digests and root names the callers use
    engine,                         \* "mem" or "sql"
    reference_to_tree,              \* InMemoryTreeStorage: digest -> entry
    tree_table,                     \* SQLiteStorage: rows of table tree
    reference_table,                \* SQLiteStorage: rows of table reference
    root_table,                     \* SQLiteStorage: name -> target digest or None
    additional_roots,               \* GarbageCollector: digest -> (tree id, weak token)
    last_gc_additional_roots_len,
    transaction,                    \* None or the number of writes of the open transaction
    durable,                        \* SQLiteStorage: the tables as the database file has them
    entries,                        \* LoadCache: most recently used first
    held,                           \* bag of the StrongReferences the application holds
    gc_removed,                     \* digests deleted by garbage collection in the last step
    ret,                            \* the last call and what it returned
    buffers,                        \* the three OpenFileContentBuffers of the file test
    file_storage,                   \* the storage of the file blocks
    file_content,                   \* the bytes written to the file so far
    operations,                     \* the number of operations of the file test so far
    file_ret,                       \* the last operation of the file test and its outcome
    segments,                       \* the references of the segments stored so far
    segment_storage,                \* the storage of the segmented blob
    segmented_ret,                  \* the last call on the segmented blob and what it returned
    tasks,                          \* the calls that are running concurrently, and where they are
    entries_lock,                   \* LoadCache: the task that holds the lock of entries, or None
    versions,                       \* sorted tree: the roots so far, each with the map it stands for
    node_storage,                   \* sorted tree: the trees that store_node stored
    sorted_ret                      \* sorted tree: the last call and what it returned

storage_vars == <<scope, engine, reference_to_tree, tree_table, reference_table, root_table,
                  additional_roots, last_gc_additional_roots_len,
                  transaction, durable, entries, held, gc_removed, ret>>

file_vars == <<buffers, file_storage, file_content, operations, file_ret>>

segmented_vars == <<segments, segment_storage, segmented_ret>>

task_vars == <<tasks, entries_lock>>

sorted_vars == <<versions, node_storage, sorted_ret>>

\* The variables that the operations of the storage engines leave alone.
other_vars == <<file_vars, segmented_vars, task_vars, sorted_vars>>

mem_vars == <<reference_to_tree>>
sql_vars == <<tree_table, reference_table, root_table, additional_roots,
              last_gc_additional_roots_len, transaction, durable>>

\* The calls whose outcome the model records.
ObservedOps == {"store_tree"}

Ret(op, status) ==
    IF op \in ObservedOps THEN [op |-> op, status |-> status]
    ELSE [op |-> "other", status |-> "ok"]

\* The result of a call with what it returned (detail), for the callers that look at it.
Observed(op, status, detail) ==
    IF op \in scope.observed THEN [op |-> op, status |-> status, detail |-> detail]
    ELSE Ret(op, status)

(***************************************************************************)
(* Liveness tokens: Arc and Weak.                                          *)
(***************************************************************************)
RefsHaveToken(references, t) == \E i \in DOMAIN references : references[i].impl = t

\* A call that is running: where it is (pc), the digest and the tree it was called
\* with, and the references that its local variables hold.
Task(pc, digest, tree, children) ==
    [pc |-> pc, digest |-> digest, tree |-> tree, children |-> children]

NoTask == Task("idle", None, [blob |-> <<>>, children |-> <<>>], <<>>)

\* The strong count of token t is positive: some StrongReference with it exists, in
\* the application (h), in the entries of the in-memory map (m), in the cache (c),
\* in the call that is running (extra) or in a call that runs concurrently.
Alive(t, m, h, c, extra) ==
    \/ t \in extra
    \/ \E r \in DOMAIN h : r.impl = t
    \/ \E d \in DOMAIN m : \/ RefsHaveToken(m[d].children, t)
                           \/ RefsHaveToken(m[d].tree.children, t)
    \/ \E i \in DOMAIN c : \/ c[i].reference.impl = t
                           \/ RefsHaveToken(c[i].tree.children, t)
    \/ \E task \in DOMAIN tasks : \/ RefsHaveToken(tasks[task].children, t)
                                  \/ RefsHaveToken(tasks[task].tree.children, t)

\* Arc::new for the token of digest: an allocation that no strong handle refers to.
\* The only weak handle that can refer to it is the one the caller overwrites.
ArcNew(digest, m, h, c, extra) ==
    MinOf({t \in TokenPool(digest) : ~Alive(t, m, h, c, extra)})

\* The application receives references: one more copy of each that has a token.
AddRefs(h, references) ==
    LET got == {r \in Range(references) : r.impl # None}
    IN [r \in DOMAIN h \cup got |->
           MinOf({MaxHeld,
                  (IF r \in DOMAIN h THEN h[r] ELSE 0)
                  + Cardinality({i \in DOMAIN references : references[i] = r})})]

\* The trees a caller can build for digest d: the child references are ones the
\* caller holds, or all of them are without a token.
CallerTrees(d) ==
    LET kids == TreeUniverse[d].children
    IN {[blob |-> TreeUniverse[d].blob, children |-> refs] :
           refs \in {s \in [DOMAIN kids -> {StrongReference(None, k) : k \in Range(kids)}
                                           \cup DOMAIN held] :
                        /\ \A i \in DOMAIN kids : s[i].digest = kids[i]
                        /\ \A i, j \in DOMAIN kids :
                               (s[i].impl = None) = (s[j].impl = None)}}

(***************************************************************************)
(* InMemoryTreeStorage.                                                    *)
(***************************************************************************)
MapRemove(m, d) == [x \in DOMAIN m \ {d} |-> m[x]]
MapPut(m, d, e) == [x \in DOMAIN m \cup {d} |-> IF x = d THEN e ELSE m[x]]

\* An entry that does not keep the references to its children.
EntryWithoutChildren(tree, strong_reference_impl, children) ==
    [tree |-> tree, strong_reference_impl |-> strong_reference_impl, children |-> <<>>]

InMemoryTreeEntry(tree, strong_reference_impl, children) ==
    [tree |-> tree, strong_reference_impl |-> strong_reference_impl, children |-> children]

\* A load_tree that leaves the entry with the expired token in the map.
LoadTreeKeepingExpired(m, reference) ==
    IF reference \in DOMAIN m /\ Alive(m[reference].strong_reference_impl, m, held, entries, {})
    THEN [m |-> m, status |-> "ok",
          reference |-> StrongReference(m[reference].strong_reference_impl, reference),
          tree |-> m[reference].tree]
    ELSE [m |-> m, status |-> "TreeNotFound",
          reference |-> StrongReference(None, reference), tree |-> None]

\* InMemoryTreeStorage::load_tree on map m: the map afterwards and the result.
MemLoadTree(m, reference) ==
    IF reference \in DOMAIN m
    THEN IF Alive(m[reference].strong_reference_impl, m, held, entries, {})
         THEN [m |-> m, status |-> "ok",
               reference |-> StrongReference(m[reference].strong_reference_impl, reference),
               tree |-> m[reference].tree]
         ELSE [m |-> MapRemove(m, reference), status |-> "TreeNotFound",
               reference |-> StrongReference(None, reference), tree |-> None]
    ELSE [m |-> m, status |-> "TreeNotFound",
          reference |-> StrongReference(None, reference), tree |-> None]

\* InMemoryTreeStorage::store_tree on map m.
MemStoreTree(m, tree, digest) ==
    LET kids == tree.children
        failed == {i \in DOMAIN kids : MemLoadTree(m, kids[i].digest).status # "ok"}
    IN IF failed # {}
       THEN LET child == kids[MinOf(failed)].digest
            IN [m |-> MemLoadTree(m, child).m, status |-> "TreeMissing", detail |-> child,
                reference |-> StrongReference(None, digest)]
       ELSE LET children == [i \in DOMAIN kids |-> MemLoadTree(m, kids[i].digest).reference]
                fresh == ArcNew(digest, m, held, entries, {})
            IN IF digest \notin DOMAIN m
               THEN [m |-> MapPut(m, digest, InMemoryTreeEntry(tree, fresh, children)),
                     status |-> "ok", detail |-> digest,
                     reference |-> StrongReference(fresh, digest)]
               ELSE IF Alive(m[digest].strong_reference_impl, m, held, entries, {})
                    THEN [m |-> m, status |-> "ok", detail |-> digest,
                          reference |->
                              StrongReference(m[digest].strong_reference_impl, digest)]
                    ELSE [m |-> MapPut(m, digest,
                                       InMemoryTreeEntry(m[digest].tree, fresh, children)),
                          status |-> "ok", detail |-> digest,
                          reference |-> StrongReference(fresh, digest)]

\* BTreeMap::retain visits the keys in ascending order and drops a removed entry, with
\* the child references it holds, before it looks at the next key.
RECURSIVE MemRetain(_, _)
MemRetain(m, todo) ==
    IF todo = {} THEN m
    ELSE LET d == MinOf(todo)
         IN IF Alive(m[d].strong_reference_impl, m, held, entries, {})
            THEN MemRetain(m, todo \ {d})
            ELSE MemRetain(MapRemove(m, d), todo \ {d})

\* A collect_some_garbage that retains every entry.
RetainEverything(m) == m

MemCollectSomeGarbage(m) == MemRetain(m, DOMAIN m)

MemTreeCount == Cardinality(DOMAIN reference_to_tree)

\* The state after store_tree returned out.
StoredTreeMem(out) ==
    /\ reference_to_tree' = out.m
    /\ held' = IF out.status = "ok" THEN AddRefs(held, <<out.reference>>) ELSE held
    /\ gc_removed' = {}
    /\ ret' = Ret("store_tree", out.status)

StoreTreeMem ==
    /\ engine = "mem"
    /\ \E d \in scope.digests : \E tree \in CallerTrees(d) :
          StoredTreeMem(MemStoreTree(reference_to_tree, tree, d))
    /\ UNCHANGED <<other_vars, scope, engine, sql_vars, entries>>

\* The state after load_tree returned out.
LoadedTreeMem(out) ==
    /\ reference_to_tree' = out.m
    /\ held' = IF out.status = "ok"
               THEN AddRefs(held, <<out.reference>> \o out.tree.children)
               ELSE held
    /\ gc_removed' = {}
    /\ ret' = Observed("load_tree", out.status,
                       [digest |-> out.reference.digest,
                        trees_removed |-> Cardinality(DOMAIN reference_to_tree)
                                          - Cardinality(DOMAIN out.m)])

LoadTreeMem ==
    /\ engine = "mem"
    /\ \E d \in scope.digests : LoadedTreeMem(MemLoadTree(reference_to_tree, d))
    /\ UNCHANGED <<other_vars, scope, engine, sql_vars, entries>>

CollectSomeGarbageMem ==
    /\ engine = "mem"
    /\ reference_to_tree' = MemCollectSomeGarbage(reference_to_tree)
    /\ gc_removed' = DOMAIN reference_to_tree \ DOMAIN reference_to_tree'
    /\ ret' = Observed("collect_some_garbage", "ok",
                       Cardinality(DOMAIN reference_to_tree)
                       - Cardinality(DOMAIN reference_to_tree'))
    /\ UNCHANGED <<other_vars, scope, engine, sql_vars, entries, held>>

(***************************************************************************)
(* Concurrent calls on one InMemoryTreeStorage.  A step is what a call     *)
(* does while it holds the lock of reference_to_tree; between two steps of *)
(* a call the other calls take their steps.                                *)
(***************************************************************************)
\* The number of calls that run concurrently.
MaxTasks == 2

Tasks == 1..MaxTasks

\* The sorted tree before new_tree.
SortedTreeInit ==
    /\ versions = <<>>
    /\ node_storage = {}
    /\ sorted_ret = [op |-> "init"]

NoTasks == tasks = <<>> /\ entries_lock = None

\* The second half of store_tree, under the lock: the entry of the digest is
\* inserted, or gets a new token when the old one expired.
MemInsert(m, tree, digest, children) ==
    IF digest \notin DOMAIN m
    THEN LET fresh == ArcNew(digest, m, held, entries, {})
         IN [m |-> MapPut(m, digest, InMemoryTreeEntry(tree, fresh, children)),
             reference |-> StrongReference(fresh, digest)]
    ELSE IF Alive(m[digest].strong_reference_impl, m, held, entries, {})
         THEN [m |-> m,
               reference |-> StrongReference(m[digest].strong_reference_impl, digest)]
         ELSE LET fresh == ArcNew(digest, m, held, entries, {})
              IN [m |-> MapPut(m, digest, InMemoryTreeEntry(m[digest].tree, fresh, children)),
                  reference |-> StrongReference(fresh, digest)]

\* A task calls store_tree.
BeginStoreTree(task) ==
    /\ tasks[task].pc = "idle"
    /\ \E d \in scope.digests : \E tree \in CallerTrees(d) :
           tasks' = [tasks EXCEPT ![task] = Task("store_tree", d, tree, <<>>)]
    /\ gc_removed' = {}
    /\ ret' = Ret("call", "ok")
    /\ UNCHANGED <<file_vars, segmented_vars, sorted_vars, scope, engine, mem_vars, sql_vars, entries,
                   held, entries_lock>>

\* The state after load_tree returned out for the next child of the tree of the task.
StoreTreeChildLoaded(task, out) ==
    /\ reference_to_tree' = out.m
    /\ tasks' = [tasks EXCEPT ![task] =
                     IF out.status = "ok"
                     THEN [@ EXCEPT !.children = Append(@, out.reference)]
                     ELSE NoTask]
    /\ ret' = Observed("store_tree", IF out.status = "ok" THEN "child" ELSE "TreeMissing",
                       [digest |-> tasks[task].digest, absent |-> {}])

\* store_tree loads the next child with load_tree, which takes the lock for itself.
StoreTreeLoadChild(task) ==
    /\ tasks[task].pc = "store_tree"
    /\ Len(tasks[task].children) < Len(tasks[task].tree.children)
    /\ StoreTreeChildLoaded(
           task, MemLoadTree(reference_to_tree,
                             tasks[task].tree.children[Len(tasks[task].children) + 1].digest))
    /\ gc_removed' = {}
    /\ UNCHANGED <<file_vars, segmented_vars, sorted_vars, scope, engine, sql_vars, entries, held,
                   entries_lock>>

\* The state after the insert of the tree of the task, with the children that were
\* absent from the map at the insert.
StoreTreeInserted(task, out) ==
    /\ reference_to_tree' = out.m
    /\ held' = AddRefs(held, <<out.reference>>)
    /\ ret' = Observed("store_tree", "ok",
                       [digest |-> tasks[task].digest,
                        absent |-> {tasks[task].children[i].digest :
                                        i \in DOMAIN tasks[task].children}
                                   \ DOMAIN reference_to_tree])

\* store_tree takes the lock again and inserts the tree.
StoreTreeInsert(task) ==
    /\ tasks[task].pc = "store_tree"
    /\ Len(tasks[task].children) = Len(tasks[task].tree.children)
    /\ StoreTreeInserted(task, MemInsert(reference_to_tree, tasks[task].tree,
                                         tasks[task].digest, tasks[task].children))
    /\ tasks' = [tasks EXCEPT ![task] = NoTask]
    /\ gc_removed' = {}
    /\ UNCHANGED <<file_vars, segmented_vars, sorted_vars, scope, engine, sql_vars, entries, entries_lock>>

\* InMemoryTreeStorage::clear.  The model has two tokens for a digest, so that a
\* cleared map can take a new tree of every digest when one of them is free.
ClearMem ==
    /\ \A d \in scope.digests :
           \E t \in TokenPool(d) : ~Alive(t, reference_to_tree, held, entries, {})
    /\ reference_to_tree' = EmptyMap
    /\ gc_removed' = {}
    /\ ret' = Ret("clear", "ok")
    /\ UNCHANGED <<other_vars, scope, engine, sql_vars, entries, held>>

(***************************************************************************)
(* The application clones and drops the StrongReferences it holds.         *)
(***************************************************************************)
CloneReference ==
    /\ \E r \in DOMAIN held :
          /\ held[r] < MaxHeld
          /\ held' = [held EXCEPT ![r] = @ + 1]
    /\ gc_removed' = {}
    /\ ret' = Ret("clone", "ok")
    /\ UNCHANGED <<other_vars, scope, engine, mem_vars, sql_vars, entries>>

DropReference ==
    /\ \E r \in DOMAIN held :
          held' = IF held[r] = 1
                  THEN [x \in DOMAIN held \ {r} |-> held[x]]
                  ELSE [held EXCEPT ![r] = @ - 1]
    /\ gc_removed' = {}
    /\ ret' = Ret("drop", "ok")
    /\ UNCHANGED <<other_vars, scope, engine, mem_vars, sql_vars, entries>>

(***************************************************************************)
(* SQLiteStorage.                                                          *)
(***************************************************************************)
\* lz4_flex::compress_prepend_size, as a run-length code behind the length of the input.
RECURSIVE RunLengths(_)
RunLengths(bytes) ==
    IF bytes = <<>> THEN <<>>
    ELSE LET run == MaxOf({k \in 1..Len(bytes) : \A i \in 1..k : bytes[i] = bytes[1]})
         IN <<bytes[1], run>> \o RunLengths(SubSeq(bytes, run + 1, Len(bytes)))

compress_prepend_size(bytes) == <<Len(bytes)>> \o RunLengths(bytes)

RECURSIVE ExpandRuns(_)
ExpandRuns(code) ==
    IF Len(code) < 2 THEN <<>>
    ELSE [i \in 1..code[2] |-> code[1]] \o ExpandRuns(SubSeq(code, 3, Len(code)))

\* lz4_flex::decompress_size_prepended: ok is FALSE when the input is no valid code.
decompress_size_prepended(code) ==
    IF code = <<>> \/ Len(code) % 2 = 0
    THEN [ok |-> FALSE, data |-> <<>>]
    ELSE LET data == ExpandRuns(Tail(code))
         IN [ok |-> Len(data) = code[1], data |-> data]

TreeRow(id, digest, tree_blob, is_compressed) ==
    [id |-> id, digest |-> digest, tree_blob |-> tree_blob, is_compressed |-> is_compressed]

ReferenceRow(origin, zero_based_index, target) ==
    [origin |-> origin, zero_based_index |-> zero_based_index, target |-> target]

\* The part of SQLiteState that a call changes on its way: the tables, the
\* GarbageCollector, and the digests that collections inside the call deleted.
SQLiteState ==
    [tree |-> tree_table, reference |-> reference_table, root |-> root_table,
     roots |-> additional_roots, last |-> last_gc_additional_roots_len, removed |-> {},
     trees_collected |-> 0]

LiveToken(t, extra) == Alive(t, reference_to_tree, held, entries, extra)

\* A DELETE that does not look at the additional roots.
DeleteIgnoringAdditionalRoots(db, row, gc_new_tree) ==
    /\ ~\E ref \in db.reference : ref.target = row.digest
    /\ ~\E name \in RootNames : db.root[name] = row.digest

\* A DELETE that does not look at the roots.
DeleteIgnoringRoots(db, row, gc_new_tree) ==
    /\ ~\E ref \in db.reference : ref.target = row.digest
    /\ row.id \notin gc_new_tree

\* A DELETE that does not look at the reference rows.
DeleteIgnoringReferences(db, row, gc_new_tree) ==
    /\ row.id \notin gc_new_tree
    /\ ~\E name \in RootNames : db.root[name] = row.digest

\* The WHERE clause of the DELETE in collect_garbage: no reference row targets the
\* tree, it is no additional root, and no root names it.
DeleteCondition(db, row, gc_new_tree) ==
    /\ ~\E ref \in db.reference : ref.target = row.digest
    /\ row.id \notin gc_new_tree
    /\ ~\E name \in RootNames : db.root[name] = row.digest

\* GarbageCollector::collect_garbage.  The DELETE picks its rows before it deletes the
\* first of them; ON DELETE CASCADE removes the reference rows of the deleted trees.
collect_garbage(db, extra) ==
    LET kept == {d \in DOMAIN db.roots : LiveToken(db.roots[d].token, extra)}
        roots == [d \in kept |-> db.roots[d]]
        gc_new_tree == {roots[d].tree_id : d \in kept}
        deleted == {row \in db.tree : DeleteCondition(db, row, gc_new_tree)}
        deleted_ids == {row.id : row \in deleted}
    IN [db EXCEPT !.tree = db.tree \ deleted,
                  !.reference = {ref \in db.reference : ref.origin \notin deleted_ids},
                  !.roots = roots,
                  !.last = Cardinality(kept),
                  !.trees_collected = Cardinality(deleted),
                  !.removed = db.removed \cup {row.digest : row \in deleted}]

\* An automatic collection that only looks at the minimum.
CollectAtMinimum(db, extra) ==
    IF Cardinality(DOMAIN db.roots) >= minimum_additional_roots_len_for_gc
    THEN collect_garbage(db, extra)
    ELSE db

\* GarbageCollector::check_automatic_collection.
check_automatic_collection(db, extra) ==
    LET additional_roots_len == Cardinality(DOMAIN db.roots)
    IN IF /\ additional_roots_len >= minimum_additional_roots_len_for_gc
          /\ additional_roots_len > db.last * 2
       THEN collect_garbage(db, extra)
       ELSE db

\* GarbageCollector::require_additional_root_entry.
require_additional_root_entry(db, root, root_tree_id, extra) ==
    LET fresh == ArcNew(root, reference_to_tree, held, entries, extra)
        inserted == [db EXCEPT !.roots = MapPut(db.roots, root,
                                                [tree_id |-> root_tree_id, token |-> fresh])]
    IN IF root \notin DOMAIN db.roots
       THEN [db |-> inserted, reference |-> StrongReference(fresh, root), panic |-> FALSE]
       ELSE IF LiveToken(db.roots[root].token, extra)
            THEN [db |-> db, reference |-> StrongReference(db.roots[root].token, root),
                  panic |-> db.roots[root].tree_id # root_tree_id]
            ELSE [db |-> inserted, reference |-> StrongReference(fresh, root),
                  panic |-> FALSE]

\* A require_additional_root that looks for the automatic collection first.
CollectBeforeAcquiring(db, root, root_tree_id, extra) ==
    require_additional_root_entry(check_automatic_collection(db, extra), root,
                                  root_tree_id, extra)

\* GarbageCollector::require_additional_root.
require_additional_root(db, root, root_tree_id, extra) ==
    LET entry == require_additional_root_entry(db, root, root_tree_id, extra)
    IN IF entry.panic THEN entry
       ELSE [entry EXCEPT !.db = check_automatic_collection(
                                     entry.db, extra \cup {entry.reference.impl})]

SqlTreeCount == Cardinality(tree_table)

NextRowId(tree) == IF tree = {} THEN 1 ELSE MaxOf({row.id : row \in tree}) + 1

\* store_tree: the blob is stored compressed when that makes it shorter.
BlobToStore(blob) ==
    LET compressed == compress_prepend_size(blob)
    IN IF Len(compressed) < Len(blob)
       THEN [tree_blob |-> compressed, is_compressed |-> 1]
       ELSE [tree_blob |-> blob, is_compressed |-> 0]

\* Reference rows numbered from one.
ReferenceRowsFromOne(tree_id, kids) ==
    {ReferenceRow(tree_id, i, kids[i].digest) : i \in DOMAIN kids}

\* store_tree: one reference row per child, numbered from zero.
ReferenceRows(tree_id, kids) ==
    {ReferenceRow(tree_id, i - 1, kids[i].digest) : i \in DOMAIN kids}

\* A savepoint that is committed on the early return.
CommitSavepoint(before, inserted) == inserted

\* store_tree returns early from inside the savepoint: dropping the savepoint rolls
\* back to the tables as they were (before), whatever was inserted since (inserted).
DropSavepoint(before, inserted) == before

\* A SELECT that finds nothing.
NoExistingRows(db, digest) == {}

\* store_tree: the SELECT that looks for a tree with the digest.
ExistingRows(db, digest) == {row \in db.tree : row.digest = digest}

\* SQLiteStorage::store_tree after the transaction was required.
SqlStoreTree(db, tree, digest) ==
    LET existing == ExistingRows(db, digest)
        kids == tree.children
        to_store == BlobToStore(tree.blob)
        tree_id == NextRowId(db.tree)
        with_tree == db.tree \cup
                         {TreeRow(tree_id, digest, to_store.tree_blob, to_store.is_compressed)}
        missing == {i \in DOMAIN kids :
                       ~\E row \in with_tree : row.digest = kids[i].digest}
        first_missing == MinOf(missing)
        saved == [db EXCEPT !.tree = with_tree,
                            !.reference = db.reference \cup ReferenceRows(tree_id, kids)]
        partly == [db EXCEPT !.tree = with_tree,
                             !.reference = db.reference \cup
                                 {row \in ReferenceRows(tree_id, kids) :
                                      row.zero_based_index < first_missing - 1}]
    IN IF existing # {}
       THEN LET got == require_additional_root(
                           db, digest, (CHOOSE row \in existing : TRUE).id, {})
            IN [db |-> got.db, status |-> IF got.panic THEN "panic" ELSE "ok",
                detail |-> digest, reference |-> got.reference, inserted |-> FALSE]
       ELSE IF missing # {}
            THEN [db |-> DropSavepoint(db, partly), status |-> "TreeMissing",
                  detail |-> kids[MinOf(missing)].digest,
                  reference |-> StrongReference(None, digest), inserted |-> TRUE]
            ELSE LET got == require_additional_root(saved, digest, tree_id, {})
                 IN [db |-> got.db, status |-> IF got.panic THEN "panic" ELSE "ok",
                     detail |-> digest, reference |-> got.reference, inserted |-> TRUE]

\* SQLiteState::require_transaction.
require_transaction(add_writes) ==
    IF transaction = None THEN add_writes ELSE transaction + add_writes

\* The rows of the child query in ascending zero_based_index.
ChildRows(db, tree_id) ==
    LET joined == {[index |-> ref.zero_based_index, target |-> ref.target,
                    child_tree_id |-> row.id] :
                      <<ref, row>> \in {p \in db.reference \X db.tree :
                                           /\ p[1].origin = tree_id
                                           /\ p[1].target = p[2].digest}}
    IN CHOOSE s \in [1..Cardinality(joined) -> joined] :
          /\ \A i, j \in DOMAIN s : i # j => s[i] # s[j]
          /\ \A i, j \in DOMAIN s : i < j => s[i].index <= s[j].index

\* The loop of load_tree_impl that acquires an additional root for every child.
RECURSIVE AcquireChildren(_, _, _, _)
AcquireChildren(db, rows, child_references, extra) ==
    IF Len(child_references) = Len(rows)
    THEN [db |-> db, child_references |-> child_references, panic |-> FALSE]
    ELSE LET row == rows[Len(child_references) + 1]
             got == require_additional_root(db, row.target, row.child_tree_id, extra)
         IN IF got.panic
            THEN [db |-> got.db, child_references |-> child_references, panic |-> TRUE]
            ELSE AcquireChildren(got.db, rows, Append(child_references, got.reference),
                                 extra \cup {got.reference.impl})

\* A TreeChildren::try_from without the limit.
TryFromUnbounded(child_references) == TRUE

\* TreeChildren::try_from: Some for at most TREE_MAX_CHILDREN references.
TreeChildrenTryFrom(child_references) == Len(child_references) <= TREE_MAX_CHILDREN

\* load_tree_impl.
SqlLoadTree(db, reference) ==
    LET found == {row \in db.tree : row.digest = reference}
        row == CHOOSE r \in found : TRUE
        decompressed == IF row.is_compressed = 1
                        THEN decompress_size_prepended(row.tree_blob)
                        ELSE [ok |-> row.is_compressed = 0, data |-> row.tree_blob]
        root == require_additional_root(db, reference, row.id, {})
        rows == ChildRows(root.db, row.id)
        kids == AcquireChildren(root.db, rows, <<>>, {root.reference.impl})
        observed == IF found = {} \/ ~decompressed.ok \/ root.panic THEN <<>> ELSE rows
        failure(db2, status, message) ==
            [db |-> db2, status |-> status, reference |-> StrongReference(None, reference),
             tree |-> None, message |-> message, observed |-> observed]
    IN IF found = {} THEN failure(db, "TreeNotFound", "")
       ELSE IF ~decompressed.ok THEN failure(db, "Inconsistency", "decompress")
       ELSE IF root.panic THEN failure(root.db, "panic", "")
       ELSE IF \E i \in DOMAIN rows : rows[i].index # i - 1
            THEN failure(root.db, "Inconsistency", "index")
       ELSE IF kids.panic THEN failure(kids.db, "panic", "")
       ELSE IF ~TreeChildrenTryFrom(kids.child_references)
            THEN failure(kids.db, "Inconsistency", "too many children")
       ELSE [db |-> kids.db, status |-> "ok", reference |-> root.reference,
             tree |-> [blob |-> decompressed.data, children |-> kids.child_references],
             message |-> "", observed |-> observed]

\* The tables of the connection.
Tables == [tree |-> tree_table, reference |-> reference_table, root |-> root_table]

\* What the database file holds after a call: SQLite commits a statement that runs
\* outside of a transaction at once, and keeps the statements since BEGIN TRANSACTION
\* out of the file until COMMIT.  Followed for the callers that look at the file.
DurableAfter ==
    durable' = IF "file" \notin scope.observed THEN durable
               ELSE IF transaction' = None THEN Tables'
               ELSE IF transaction = None THEN Tables
               ELSE durable

\* The state after a call that left db.
SqlAfter(db) ==
    /\ tree_table' = db.tree
    /\ reference_table' = db.reference
    /\ root_table' = db.root
    /\ additional_roots' = db.roots
    /\ last_gc_additional_roots_len' = db.last
    /\ gc_removed' = db.removed

\* What a call hands out: the digest of the reference and of every child reference.
Returned(reference, children) ==
    [digest |-> reference.digest,
     children |-> [i \in DOMAIN children |-> children[i].digest]]

\* The state after store_tree returned out, with writes batched in the transaction.
StoredTreeSql(out, writes) ==
    /\ out.inserted => writes <= MaxWrites /\ NextRowId(tree_table) <= MaxRowId
    /\ transaction' = IF out.inserted THEN writes ELSE transaction
    /\ SqlAfter(out.db)
    /\ held' = IF out.status = "ok" THEN AddRefs(held, <<out.reference>>) ELSE held
    /\ ret' = Observed("store_tree", out.status, Returned(out.reference, <<>>))

StoreTreeSql ==
    /\ engine = "sql"
    /\ \E d \in scope.digests : \E tree \in CallerTrees(d) :
          StoredTreeSql(SqlStoreTree(SQLiteState, tree, d),
                        require_transaction(1 + Len(tree.children)))
    /\ UNCHANGED <<other_vars, scope, engine, mem_vars, entries>>
    /\ DurableAfter

\* What load_tree returned, with the message of its error and the rows that its
\* query for the children returned.
LoadedDetail(out, children) ==
    [digest |-> out.reference.digest,
     children |-> [i \in DOMAIN children |-> children[i].digest],
     message |-> out.message,
     indices |-> [i \in DOMAIN out.observed |-> out.observed[i].index],
     targets |-> [i \in DOMAIN out.observed |-> out.observed[i].target]]

\* The state after load_tree returned out.
LoadedTreeSql(out) ==
    /\ SqlAfter(out.db)
    /\ held' = IF out.status = "ok"
               THEN AddRefs(held, <<out.reference>> \o out.tree.children)
               ELSE held
    /\ ret' = Observed("load_tree", out.status,
                       LoadedDetail(out, IF out.status = "ok" THEN out.tree.children
                                         ELSE <<>>))

LoadTreeSql ==
    /\ engine = "sql"
    /\ \E d \in scope.digests : LoadedTreeSql(SqlLoadTree(SQLiteState, d))
    /\ UNCHANGED <<other_vars, scope, engine, mem_vars, transaction, entries>>
    /\ DurableAfter

\* An update_root whose UPDATE has no WHERE: it sets the target of every root.
UpdateEveryRoot ==
    /\ engine = "sql"
    /\ require_transaction(1) <= MaxWrites
    /\ transaction' = require_transaction(1)
    /\ \E name \in scope.names, target \in scope.digests :
          IF \E row \in tree_table : row.digest = target
          THEN /\ root_table' = [other \in RootNames |-> target]
               /\ ret' = Observed("update_root", "ok",
                                  [name |-> name, target |-> target, missing |-> None])
          ELSE /\ root_table' = root_table
               /\ ret' = Observed("update_root", "TreeMissing",
                                  [name |-> name, target |-> target, missing |-> target])
    /\ gc_removed' = {}
    /\ UNCHANGED <<other_vars, scope, engine, mem_vars, tree_table, reference_table, additional_roots,
                   last_gc_additional_roots_len, entries, held>>
    /\ DurableAfter

\* An update_root that does not look for the target in the tree table.
UpdateRootUnchecked ==
    /\ engine = "sql"
    /\ require_transaction(1) <= MaxWrites
    /\ transaction' = require_transaction(1)
    /\ \E name \in scope.names, target \in scope.digests :
          IF TRUE
          THEN /\ root_table' = [root_table EXCEPT ![name] = target]
               /\ ret' = Observed("update_root", "ok",
                                  [name |-> name, target |-> target, missing |-> None])
          ELSE /\ root_table' = root_table
               /\ ret' = Observed("update_root", "TreeMissing",
                                  [name |-> name, target |-> target, missing |-> target])
    /\ gc_removed' = {}
    /\ UNCHANGED <<other_vars, scope, engine, mem_vars, tree_table, reference_table, additional_roots,
                   last_gc_additional_roots_len, entries, held>>
    /\ DurableAfter

\* SQLiteStorage::update_root; the target is any reference the caller can make.
UpdateRootSql ==
    /\ engine = "sql"
    /\ require_transaction(1) <= MaxWrites
    /\ transaction' = require_transaction(1)
    /\ \E name \in scope.names, target \in scope.digests :
          IF \E row \in tree_table : row.digest = target
          THEN /\ root_table' = [root_table EXCEPT ![name] = target]
               /\ ret' = Observed("update_root", "ok",
                                  [name |-> name, target |-> target, missing |-> None])
          ELSE /\ root_table' = root_table
               /\ ret' = Observed("update_root", "TreeMissing",
                                  [name |-> name, target |-> target, missing |-> target])
    /\ gc_removed' = {}
    /\ UNCHANGED <<other_vars, scope, engine, mem_vars, tree_table, reference_table, additional_roots,
                   last_gc_additional_roots_len, entries, held>>
    /\ DurableAfter

\* SQLiteStorage::load_root.
\* The state after load_root found the tree of the root and got its reference.
LoadedRootSql(name, got) ==
    /\ SqlAfter(got.db)
    /\ held' = IF got.panic THEN held ELSE AddRefs(held, <<got.reference>>)
    /\ ret' = Observed("load_root", IF got.panic THEN "panic" ELSE "ok",
                       [name |-> name, digest |-> got.reference.digest])

LoadRootSql ==
    /\ engine = "sql"
    /\ \E name \in scope.names :
          IF \A row \in tree_table : row.digest # root_table[name]
          THEN /\ SqlAfter(SQLiteState)
               /\ held' = held
               /\ ret' = Observed("load_root", "None", [name |-> name, digest |-> None])
          ELSE LoadedRootSql(
                   name,
                   require_additional_root(
                       SQLiteState, root_table[name],
                       (CHOOSE row \in tree_table : row.digest = root_table[name]).id, {}))
    /\ UNCHANGED <<other_vars, scope, engine, mem_vars, transaction, entries>>
    /\ DurableAfter

\* SQLiteStorage::collect_some_garbage.
CollectSomeGarbageSql ==
    /\ engine = "sql"
    /\ SqlAfter(collect_garbage(SQLiteState, {}))
    /\ ret' = Observed("collect_some_garbage", "ok",
                       collect_garbage(SQLiteState, {}).trees_collected)
    /\ UNCHANGED <<other_vars, scope, engine, mem_vars, transaction, entries, held>>
    /\ DurableAfter

\* A commit_changes that leaves the transaction open.
CommitWithoutCommit(t) == [transaction |-> t, writes |-> t]

\* SQLiteStorage::commit_changes on the transaction t: COMMIT when one is open.
commit_changes(t) ==
    IF t # None THEN [transaction |-> None, writes |-> t]
    ELSE [transaction |-> t, writes |-> 0]

CommitChangesSql ==
    /\ engine = "sql"
    /\ transaction' = commit_changes(transaction).transaction
    /\ gc_removed' = {}
    /\ ret' = Observed("commit_changes", "ok", commit_changes(transaction).writes)
    /\ UNCHANGED <<other_vars, scope, engine, mem_vars, tree_table, reference_table, root_table,
                   additional_roots, last_gc_additional_roots_len, entries, held>>
    /\ DurableAfter

\* What a tree row holds after its blob was damaged outside of the program.
DamagedBlob == <<9>>

\* The database file is damaged outside of the program: the blob of a tree row no
\* longer is the one that was stored under the digest of the row.
DamageTreeSql ==
    /\ engine = "sql"
    /\ \E row \in tree_table :
           /\ row.tree_blob # DamagedBlob
           /\ tree_table' = (tree_table \ {row}) \cup {[row EXCEPT !.tree_blob = DamagedBlob]}
    /\ gc_removed' = {}
    /\ ret' = Ret("damage", "ok")
    /\ UNCHANGED <<other_vars, scope, engine, mem_vars, reference_table, root_table,
                   additional_roots, last_gc_additional_roots_len, transaction, entries, held>>
    /\ DurableAfter

\* The reference rows that store_tree wrote for the tree of a row.
StoredReferenceRows(row) ==
    {ReferenceRow(row.id, i - 1, TreeUniverse[row.digest].children[i]) :
        i \in DOMAIN TreeUniverse[row.digest].children}

\* The reference rows that are not the ones store_tree wrote, or are missing.
DamagedRows(rows) ==
    LET stored == UNION {StoredReferenceRows(row) : row \in tree_table}
    IN (rows \ stored) \cup (stored \ rows)

\* The reference table after the change is one that the model follows.
ReferencesDamaged(rows) ==
    /\ Cardinality(DamagedRows(rows)) <= MaxDamagedRows
    /\ reference_table' = rows

\* The database file is changed outside of the program, through another connection:
\* a reference row is deleted, or one is inserted for a tree of the table, at an
\* index that the tree has no row for (UNIQUE (origin, zero_based_index)).
DamageReferenceSql ==
    /\ engine = "sql"
    /\ \/ \E ref \in reference_table : ReferencesDamaged(reference_table \ {ref})
       \/ \E row \in tree_table, index \in 0..TREE_MAX_CHILDREN, target \in scope.digests :
             /\ ~\E ref \in reference_table :
                    ref.origin = row.id /\ ref.zero_based_index = index
             /\ ReferencesDamaged(reference_table
                                  \cup {ReferenceRow(row.id, index, target)})
    /\ gc_removed' = {}
    /\ ret' = Ret("damage", "ok")
    /\ UNCHANGED <<other_vars, scope, engine, mem_vars, tree_table, root_table,
                   additional_roots, last_gc_additional_roots_len, transaction, entries, held>>
    /\ DurableAfter

(***************************************************************************)
(* LoadCache over either engine.                                           *)
(***************************************************************************)
CacheValue(key, tree, reference) == [key |-> key, tree |-> tree, reference |-> reference]

\* What LoadCache makes of the tree an engine loaded: hash() of an Immediate tree is
\* the tree, hash() of a Delayed tree compares the digests.
Hashed(out, m, db, hashed) ==
    [m |-> m, db |-> db, status |-> out.status, reference |-> out.reference,
     tree |-> out.tree, hashed |-> IF out.status = "ok" THEN hashed ELSE None]

HashedMem(out) ==
    Hashed(out, out.m, SQLiteState,
           IF out.status = "ok"
           THEN HashedTreeFrom(out.tree.blob, RefDigests(out.tree.children)) ELSE None)

HashedSql(out, reference) ==
    Hashed(out, reference_to_tree, out.db,
           IF out.status = "ok" THEN DelayedHash(out.tree, reference) ELSE None)

\* self.next.load_tree followed by hash().
BackingLoadTree(reference) ==
    IF engine = "mem"
    THEN HashedMem(MemLoadTree(reference_to_tree, reference))
    ELSE HashedSql(SqlLoadTree(SQLiteState, reference), reference)

\* The entries of cache c other than the one for key, in their order.
RECURSIVE CacheWithout(_, _)
CacheWithout(c, key) ==
    IF c = <<>> THEN <<>>
    ELSE IF Head(c).key = key THEN CacheWithout(Tail(c), key)
    ELSE <<Head(c)>> \o CacheWithout(Tail(c), key)

\* SizedCache::cache_set: the new entry is the most recent one, the least recent one
\* leaves when the capacity is exceeded.
cache_set(c, value) ==
    LET all == <<value>> \o CacheWithout(c, value.key)
    IN SubSeq(all, 1, MinOf({Len(all), max_entries}))

\* SizedCache::cache_get moves the entry to the front.
cache_get(c, key) ==
    <<c[CHOOSE i \in DOMAIN c : c[i].key = key]>> \o CacheWithout(c, key)

\* load_tree_impl when the cache has the tree: hit is the cache after cache_get.
CacheHit(hit) ==
    [entries |-> hit, m |-> reference_to_tree, db |-> SQLiteState, status |-> "ok",
     reference |-> hit[1].reference, tree |-> hit[1].tree,
     hashed |-> HashedTreeFrom(hit[1].tree.blob, RefDigests(hit[1].tree.children))]

\* A load_tree_impl that caches and returns what the engine loaded without hash().
CacheMissUnverified(c, reference, out) ==
    IF out.status = "ok"
    THEN [entries |-> cache_set(c, CacheValue(reference, out.tree, out.reference)),
          m |-> out.m, db |-> out.db, status |-> "ok",
          reference |-> out.reference, tree |-> out.tree, hashed |-> out.hashed]
    ELSE [entries |-> c, m |-> out.m, db |-> out.db, status |-> out.status,
          reference |-> StrongReference(None, reference), tree |-> None,
          hashed |-> None]

\* load_tree_impl when the cache does not have the tree: out is what the engine loaded.
CacheMiss(c, reference, out) ==
    IF out.status = "ok" /\ out.hashed # None
    THEN [entries |-> cache_set(c, CacheValue(reference, out.tree, out.reference)),
          m |-> out.m, db |-> out.db, status |-> "ok",
          reference |-> out.reference, tree |-> out.tree, hashed |-> out.hashed]
    ELSE [entries |-> c, m |-> out.m, db |-> out.db,
          status |-> IF out.status = "ok" THEN "TreeNotFound" ELSE out.status,
          reference |-> StrongReference(None, reference), tree |-> None,
          hashed |-> None]

\* LoadCache::load_tree_impl on cache c: the cache and the engine afterwards, and the
\* result with the digest that hash() yields.
LoadCacheLoadTree(c, reference) ==
    IF \E i \in DOMAIN c : c[i].key = reference
    THEN CacheHit(cache_get(c, reference))
    ELSE CacheMiss(c, reference, BackingLoadTree(reference))

CacheKeys(c) == {c[i].key : i \in DOMAIN c}

\* The content of a tree: its blob and the digests of its children.
TreeContent(tree) == [blob |-> tree.blob, children |-> RefDigests(tree.children)]

\* The entries of cache c that are not in cache after: their keys and contents.
Evicted(c, after) ==
    {[key |-> c[i].key, content |-> TreeContent(c[i].tree)] :
         i \in {k \in DOMAIN c : c[k].key \notin CacheKeys(after)}}

\* What a caller of LoadCache::load_tree for d sees of the result out, and what the
\* call did to the cache.
CacheLoaded(d, out) ==
    [digest |-> d, reference |-> out.reference, hashed |-> out.hashed,
     content |-> IF out.status = "ok" THEN TreeContent(out.tree) ELSE None,
     evicted |-> Evicted(entries, out.entries), unchanged |-> out.entries = entries]

\* The state after the application loaded d through the LoadCache and got out.
LoadedThroughCache(d, out) ==
    /\ entries' = out.entries
    /\ reference_to_tree' = out.m
    /\ SqlAfter(out.db)
    /\ transaction' = transaction
    /\ held' = IF out.status = "ok"
               THEN AddRefs(held, <<out.reference>> \o out.tree.children)
               ELSE held
    /\ ret' = Observed("cache_load_tree", out.status, CacheLoaded(d, out))

\* The application loads through the LoadCache.
LoadTreeCache ==
    /\ \E d \in scope.digests : LoadedThroughCache(d, LoadCacheLoadTree(entries, d))
    /\ UNCHANGED <<other_vars, scope, engine>>
    /\ DurableAfter

(***************************************************************************)
(* Concurrent load_tree calls on one LoadCache.  A task waits for the lock *)
(* of entries, and is suspended while the backing store loads.             *)
(***************************************************************************)
\* A task calls LoadCache::load_tree and waits for the lock of entries.
BeginCacheLoad(task) ==
    /\ tasks[task].pc = "idle"
    /\ \E d \in scope.digests :
           tasks' = [tasks EXCEPT ![task] = Task("lock_lookup", d, NoTask.tree, <<>>)]
    /\ gc_removed' = {}
    /\ ret' = Ret("call", "ok")
    /\ UNCHANGED <<file_vars, segmented_vars, sorted_vars, scope, engine, mem_vars, sql_vars, entries,
                   held, entries_lock>>

\* self.entries.lock().await returns when no task holds the lock.
CacheLock(task) ==
    /\ tasks[task].pc \in {"lock_lookup", "lock_set"}
    /\ entries_lock = None
    /\ entries_lock' = task
    /\ tasks' = [tasks EXCEPT ![task].pc = IF @ = "lock_lookup" THEN "lookup" ELSE "set"]
    /\ gc_removed' = {}
    /\ ret' = Ret("lock", "ok")
    /\ UNCHANGED <<file_vars, segmented_vars, sorted_vars, scope, engine, mem_vars, sql_vars, entries, held>>

\* The call of a task returns out.
CacheLoadReturns(task, out) ==
    /\ tasks' = [tasks EXCEPT ![task] = NoTask]
    /\ held' = IF out.status = "ok"
               THEN AddRefs(held, <<out.reference>> \o out.tree.children)
               ELSE held
    /\ ret' = Observed("cache_load_tree", out.status, CacheLoaded(tasks[task].digest, out))

\* A lookup that keeps the lock of entries when the cache does not have the tree.
CacheLookupKeepingLock(task) ==
    /\ tasks[task].pc = "lookup"
    /\ IF \E i \in DOMAIN entries : entries[i].key = tasks[task].digest
       THEN /\ entries' = cache_get(entries, tasks[task].digest)
            /\ CacheLoadReturns(task, CacheHit(entries'))
            /\ entries_lock' = None
       ELSE /\ tasks' = [tasks EXCEPT ![task].pc = "load"]
            /\ ret' = Ret("lookup", "ok")
            /\ UNCHANGED <<entries, held, entries_lock>>
    /\ gc_removed' = {}
    /\ UNCHANGED <<file_vars, segmented_vars, sorted_vars, scope, engine, mem_vars, sql_vars>>

\* The block of load_tree_impl that holds the lock: cache_get, and the lock is
\* dropped at the end of the block or at the return.
CacheLookup(task) ==
    /\ tasks[task].pc = "lookup"
    /\ entries_lock' = None
    /\ IF \E i \in DOMAIN entries : entries[i].key = tasks[task].digest
       THEN /\ entries' = cache_get(entries, tasks[task].digest)
            /\ CacheLoadReturns(task, CacheHit(entries'))
       ELSE /\ tasks' = [tasks EXCEPT ![task].pc = "load"]
            /\ ret' = Ret("lookup", "ok")
            /\ UNCHANGED <<entries, held>>
    /\ gc_removed' = {}
    /\ UNCHANGED <<file_vars, segmented_vars, sorted_vars, scope, engine, mem_vars, sql_vars>>

\* What load_tree_impl returns when the backing store or hash() failed.
CacheLoadFailed(out) ==
    [entries |-> entries, status |-> IF out.status = "ok" THEN "TreeNotFound" ELSE out.status,
     reference |-> StrongReference(None, out.reference.digest), tree |-> None, hashed |-> None]

\* The state after the backing store loaded out for the task.
CacheBackingLoaded(task, out) ==
    /\ reference_to_tree' = out.m
    /\ SqlAfter(out.db)
    /\ IF out.status = "ok" /\ out.hashed # None
       THEN /\ tasks' = [tasks EXCEPT ![task] =
                            Task("lock_set", @.digest, out.tree, <<out.reference>>)]
            /\ ret' = Ret("load", "ok")
            /\ held' = held
       ELSE CacheLoadReturns(task, CacheLoadFailed(out))

\* self.next.load_tree(reference).await and hash().
CacheBackingLoad(task) ==
    /\ tasks[task].pc = "load"
    /\ CacheBackingLoaded(task, BackingLoadTree(tasks[task].digest))
    /\ transaction' = transaction
    /\ UNCHANGED <<file_vars, segmented_vars, sorted_vars, scope, engine, entries, entries_lock>>
    /\ DurableAfter

\* cache_set under the lock, and the return of the result.
CacheSet(task) ==
    /\ tasks[task].pc = "set"
    /\ entries' = cache_set(entries, CacheValue(tasks[task].digest, tasks[task].tree,
                                                tasks[task].children[1]))
    /\ entries_lock' = None
    /\ CacheLoadReturns(task, CacheHit(entries'))
    /\ gc_removed' = {}
    /\ UNCHANGED <<file_vars, segmented_vars, sorted_vars, scope, engine, mem_vars, sql_vars>>

(***************************************************************************)
(* The open file buffer of dogbox_tree_editor: a file is a sequence of     *)
(* blocks of VALUE_BLOB_MAX_LENGTH bytes, each kept in memory or in the    *)
(* storage.  Block indices count from zero as in the code.                 *)
(***************************************************************************)
\* Scaled down from 64000.
VALUE_BLOB_MAX_LENGTH == 2
\* The dirty blocks a buffer collects before a write stores blocks.
write_buffer_in_blocks == 2
\* Write positions and data lengths of the operations, and their number.
MaxPosition == 5
MaxDataLength == 4
MaxOperations == 3

max_number_of_blocks_tracked == 16
max_prefetch_length == 24
u16 == 65536

Min(a, b) == IF a <= b THEN a ELSE b
Max(a, b) == IF a >= b THEN a ELSE b
Take(s, n) == SubSeq(s, 1, Min(n, Len(s)))
Drop(s, n) == SubSeq(s, Min(n, Len(s)) + 1, Len(s))
Zeroes(n) == [i \in 1..n |-> 0]

Tree(blob, references) == [blob |-> blob, references |-> references]

\* The digest covers the blob and the child digests in their order; the model has
\* no collisions.
calculate_digest(value) == <<"sha3", value.blob, value.references>>

HashedValue(value) == [value |-> value, digest |-> calculate_digest(value)]

\* BlobDigest::hash of bytes is the digest of the tree with that blob and no child.
BlobDigestHash(bytes) == calculate_digest(Tree(bytes, <<>>))

\* postcard writes the only field of SegmentedBlob, a u64, as a varint.
RECURSIVE postcard_to_allocvec(_)
postcard_to_allocvec(size_in_bytes) ==
    IF size_in_bytes < 128 THEN <<size_in_bytes>>
    ELSE <<128 + (size_in_bytes % 128)>> \o postcard_to_allocvec(size_in_bytes \div 128)

RECURSIVE postcard_from_bytes(_)
postcard_from_bytes(bytes) ==
    IF bytes = <<>> THEN [ok |-> FALSE, size_in_bytes |-> 0]
    ELSE IF Head(bytes) < 128 THEN [ok |-> TRUE, size_in_bytes |-> Head(bytes)]
    ELSE LET rest == postcard_from_bytes(Tail(bytes))
         IN [ok |-> rest.ok, size_in_bytes |-> (Head(bytes) - 128) + 128 * rest.size_in_bytes]

\* The storage of the file blocks: a map from digest to tree, here the set of its
\* hashed trees.
load_value(storage, digest) ==
    LET found == {hashed \in storage : hashed.digest = digest}
    IN IF found = {} THEN [is_some |-> FALSE, hashed |-> HashedValue(Tree(<<>>, <<>>))]
       ELSE [is_some |-> TRUE, hashed |-> CHOOSE hashed \in found : TRUE]

\* A storage that keeps every child of a tree once.
RECURSIVE WithoutDuplicates(_)
WithoutDuplicates(references) ==
    IF references = <<>> THEN <<>>
    ELSE IF \E i \in 1..(Len(references) - 1) : references[i] = references[Len(references)]
    THEN WithoutDuplicates(SubSeq(references, 1, Len(references) - 1))
    ELSE Append(WithoutDuplicates(SubSeq(references, 1, Len(references) - 1)),
                references[Len(references)])

StoreWithoutDuplicates(storage, hashed_value) ==
    IF \E hashed \in storage : hashed.digest = hashed_value.digest
    THEN storage
    ELSE storage \cup {[value |-> Tree(hashed_value.value.blob,
                                       WithoutDuplicates(hashed_value.value.references)),
                        digest |-> hashed_value.digest]}

store_value(storage, hashed_value) ==
    IF \E hashed \in storage : hashed.digest = hashed_value.digest
    THEN storage
    ELSE storage \cup {hashed_value}

NotLoadedBlock(blob_digest, size) == [kind |-> "NotLoaded", digest |-> blob_digest, size |-> size]
KnownDigest(hashed_value) == [kind |-> "KnownDigest", hashed_value |-> hashed_value]
UnknownDigest(vec) == [kind |-> "UnknownDigest", vec |-> vec]

\* OpenFileContentBlock::load, after the tree is there.
LoadChecked(loaded, size) ==
    IF Len(loaded.value.blob) # size THEN [status |-> "FileSizeMismatch", loaded |-> loaded]
    ELSE IF loaded.value.references # <<>> THEN [status |-> "TooManyReferences", loaded |-> loaded]
    ELSE [status |-> "ok", loaded |-> loaded]

LoadFound(found, size) ==
    IF ~found.is_some THEN [status |-> "MissingValue", loaded |-> found.hashed]
    ELSE LoadChecked(found.hashed, size)

load(blob_digest, size, storage) ==
    IF size = 0 THEN LoadChecked(HashedValue(Tree(<<>>, <<>>)), size)
    ELSE LoadFound(load_value(storage, blob_digest), size)

\* The block after a load that access_content_for_reading or _writing started.
BlockLoaded(block, out) ==
    IF out.status = "ok" THEN [status |-> "ok", block |-> KnownDigest(out.loaded)]
    ELSE [status |-> out.status, block |-> block]

RequireLoadedBlock(block, storage) ==
    IF block.kind = "NotLoaded"
    THEN BlockLoaded(block, load(block.digest, block.size, storage))
    ELSE [status |-> "ok", block |-> block]

BlockContent(block) ==
    IF block.kind = "KnownDigest" THEN block.hashed_value.value.blob ELSE block.vec

ContentForReading(out) ==
    [status |-> out.status, block |-> out.block,
     bytes |-> IF out.status = "ok" THEN BlockContent(out.block) ELSE <<>>]

access_content_for_reading(block, storage) ==
    ContentForReading(RequireLoadedBlock(block, storage))

ContentForWriting(out) ==
    IF out.status = "ok"
    THEN [status |-> "ok", block |-> UnknownDigest(BlockContent(out.block))]
    ELSE out

access_content_for_writing(block, storage) ==
    ContentForWriting(RequireLoadedBlock(block, storage))

\* A write behind the end of the block that leaves no zeroes.
SplitWithoutZeroes(data, position_in_block, buf) ==
    IF position_in_block <= Len(data)
    THEN LET can_overwrite == Min(Len(data) - position_in_block, Len(buf))
         IN [data |-> Take(data, position_in_block) \o Take(buf, can_overwrite)
                          \o Drop(data, position_in_block + can_overwrite),
             for_extending |-> Drop(buf, can_overwrite)]
    ELSE [data |-> data, for_extending |-> buf]

\* OpenFileContentBlock::write: what is overwritten and what extends the block.
SplitForWriting(data, position_in_block, buf) ==
    IF position_in_block <= Len(data)
    THEN LET can_overwrite == Min(Len(data) - position_in_block, Len(buf))
         IN [data |-> Take(data, position_in_block) \o Take(buf, can_overwrite)
                          \o Drop(data, position_in_block + can_overwrite),
             for_extending |-> Drop(buf, can_overwrite)]
    ELSE [data |-> data \o Zeroes(position_in_block - Len(data)), for_extending |-> buf]

ExtendBlock(split) ==
    LET remaining_capacity == (VALUE_BLOB_MAX_LENGTH - Len(split.data)) % u16
        extension_size == Min(Len(split.for_extending), remaining_capacity)
    IN [status |-> "ok",
        block |-> UnknownDigest(split.data \o Take(split.for_extending, extension_size)),
        remaining |-> Drop(split.for_extending, extension_size)]

WriteAccessed(access, position_in_block, buf) ==
    IF access.status # "ok"
    THEN [status |-> access.status, block |-> access.block, remaining |-> buf]
    ELSE ExtendBlock(SplitForWriting(access.block.vec, position_in_block, buf))

BlockWrite(block, position_in_block, buf, storage) ==
    WriteAccessed(access_content_for_writing(block, storage), position_in_block, buf)

StoreHashed(hashed_value, storage) ==
    [is_some |-> TRUE,
     stored |-> hashed_value.digest,
     block |-> NotLoadedBlock(hashed_value.digest, Len(hashed_value.value.blob)),
     storage |-> store_value(storage, hashed_value)]

try_store(block, is_allowed_to_calculate_digest, storage) ==
    IF block.kind = "NotLoaded"
    THEN [is_some |-> TRUE, stored |-> block.digest, block |-> block, storage |-> storage]
    ELSE IF block.kind = "KnownDigest" THEN StoreHashed(block.hashed_value, storage)
    ELSE IF ~is_allowed_to_calculate_digest
    THEN [is_some |-> FALSE, stored |-> BlobDigestHash(<<>>), block |-> block,
          storage |-> storage]
    ELSE StoreHashed(HashedValue(Tree(block.vec, <<>>)), storage)

BlockSize(block) ==
    IF block.kind = "NotLoaded" THEN block.size ELSE Len(BlockContent(block))

DigestStatus(last_known_digest, is_digest_up_to_date) ==
    [last_known_digest |-> last_known_digest, is_digest_up_to_date |-> is_digest_up_to_date]

OpenFileContentBufferLoaded(size, blocks, digest, last_known_digest_file_size, dirty_blocks, prefetcher) ==
    [loaded |-> TRUE, size |-> size, blocks |-> blocks, digest |-> digest,
     last_known_digest_file_size |-> last_known_digest_file_size,
     dirty_blocks |-> dirty_blocks, prefetcher |-> prefetcher]

SetBlock(blocks, index, block) == [blocks EXCEPT ![index + 1] = block]

verify_integrity(loaded) ==
    \A i \in DOMAIN loaded.blocks :
        /\ BlockSize(loaded.blocks[i]) <= VALUE_BLOB_MAX_LENGTH
        /\ i < Len(loaded.blocks) => BlockSize(loaded.blocks[i]) = VALUE_BLOB_MAX_LENGTH

RECURSIVE StoreCheapLoop(_, _, _)
CheapStored(loaded, storage, skipped, index, out) ==
    IF out.is_some
    THEN StoreCheapLoop([loaded EXCEPT !.blocks = SetBlock(@, index, out.block),
                                       !.dirty_blocks = Tail(@)],
                        out.storage, skipped)
    ELSE StoreCheapLoop(loaded, storage, skipped + 1)

StoreCheapLoop(loaded, storage, skipped) ==
    IF skipped >= Len(loaded.dirty_blocks)
    THEN [status |-> "ok", loaded |-> loaded, storage |-> storage]
    ELSE CheapStored(loaded, storage, skipped, loaded.dirty_blocks[skipped + 1],
                     try_store(loaded.blocks[loaded.dirty_blocks[skipped + 1] + 1], FALSE,
                               storage))

IntegrityVerified(out) ==
    IF verify_integrity(out.loaded) THEN out ELSE [out EXCEPT !.status = "panic"]

store_cheap_blocks(loaded, storage) ==
    IF ~verify_integrity(loaded)
    THEN [status |-> "panic", loaded |-> loaded, storage |-> storage]
    ELSE IntegrityVerified(StoreCheapLoop(loaded, storage, 0))

\* An update_digest that leaves last_known_digest_file_size as it was.
UpdateDigestOnly(loaded, new_digest) ==
    [loaded EXCEPT !.digest = DigestStatus(new_digest, TRUE)]

update_digest(loaded, new_digest) ==
    [loaded EXCEPT !.digest = DigestStatus(new_digest, TRUE),
                   !.last_known_digest_file_size = loaded.size]

RECURSIVE StoreBlocks(_, _, _, _)
BlockStored(blocks, index, blocks_stored, out) ==
    StoreBlocks(SetBlock(blocks, index, out.block), out.storage, index + 1,
                Append(blocks_stored, out.stored))

StoreBlocks(blocks, storage, index, blocks_stored) ==
    IF index >= Len(blocks)
    THEN [blocks |-> blocks, storage |-> storage, blocks_stored |-> blocks_stored]
    ELSE BlockStored(blocks, index, blocks_stored, try_store(blocks[index + 1], TRUE, storage))

\* A root that leaves out the block digests.
RootWithoutBlocks(size, blocks_stored) ==
    HashedValue(Tree(postcard_to_allocvec(size), <<>>))

\* store_all: the root of a file of several blocks.
SegmentedBlobRoot(size, blocks_stored) ==
    HashedValue(Tree(postcard_to_allocvec(size), blocks_stored))

AllBlocksStored(loaded, out) ==
    IF Len(out.blocks_stored) = 1
    THEN [status |-> "ok",
          loaded |-> update_digest([loaded EXCEPT !.blocks = out.blocks, !.dirty_blocks = <<>>],
                                   out.blocks_stored[1]),
          storage |-> out.storage]
    ELSE [status |-> "ok",
          loaded |-> update_digest([loaded EXCEPT !.blocks = out.blocks, !.dirty_blocks = <<>>],
                                   SegmentedBlobRoot(loaded.size, out.blocks_stored).digest),
          storage |-> store_value(out.storage,
                                  SegmentedBlobRoot(loaded.size, out.blocks_stored))]

LoadedStoreAll(loaded, storage) ==
    IF ~verify_integrity(loaded)
    THEN [status |-> "panic", loaded |-> loaded, storage |-> storage]
    ELSE AllBlocksStored(loaded, StoreBlocks(loaded.blocks, storage, 0, <<>>))

RECURSIVE SplitFullBlocks(_, _, _)
SplitFullBlocks(prefix, block_aligned_content, full_blocks) ==
    IF Len(block_aligned_content) < VALUE_BLOB_MAX_LENGTH
    THEN [prefix |-> prefix, full_blocks |-> full_blocks, suffix |-> block_aligned_content]
    ELSE SplitFullBlocks(prefix, Drop(block_aligned_content, VALUE_BLOB_MAX_LENGTH),
                         Append(full_blocks,
                                HashedValue(Tree(Take(block_aligned_content,
                                                      VALUE_BLOB_MAX_LENGTH), <<>>))))

\* OptimizedWriteBuffer::from_bytes
from_bytes(write_position, content) ==
    LET first_block_offset == write_position % VALUE_BLOB_MAX_LENGTH
        first_block_capacity == VALUE_BLOB_MAX_LENGTH - first_block_offset
        prefix_length == IF first_block_offset = 0 /\ Len(content) >= VALUE_BLOB_MAX_LENGTH
                         THEN 0
                         ELSE Min(Len(content), first_block_capacity)
    IN SplitFullBlocks(Take(content, prefix_length), Drop(content, prefix_length), <<>>)

OptimizedWriteBufferLen(buf) ==
    Len(buf.prefix) + Len(buf.full_blocks) * VALUE_BLOB_MAX_LENGTH + Len(buf.suffix)

from_storage(digest, size) == [loaded |-> FALSE, digest |-> digest, size |-> size]

from_data(data, last_known_digest, last_known_digest_file_size) ==
    OpenFileContentBufferLoaded(Len(data), <<UnknownDigest(data)>>,
                                DigestStatus(last_known_digest, FALSE),
                                last_known_digest_file_size, <<0>>, <<>>)

BufferSize(buffer) == buffer.size

last_known_digest(buffer) ==
    IF buffer.loaded
    THEN <<buffer.digest, buffer.last_known_digest_file_size>>
    ELSE <<DigestStatus(buffer.digest, TRUE), buffer.size>>

\* require_loaded: the blocks of a file of more than one block.
SegmentedBlocks(references, size) ==
    [i \in 1..Len(references) |->
        IF i < Len(references)
        THEN NotLoadedBlock(references[i], VALUE_BLOB_MAX_LENGTH)
        ELSE NotLoadedBlock(references[i],
                            (size - (Len(references) - 1) * VALUE_BLOB_MAX_LENGTH) % u16)]

LoadedFrom(buffer, blocks) ==
    [status |-> "ok",
     buffer |-> OpenFileContentBufferLoaded(buffer.size, blocks,
                                            DigestStatus(buffer.digest, TRUE), buffer.size,
                                            <<>>, <<>>)]

SegmentedBlobLoaded(buffer, found, info) ==
    IF ~found.is_some THEN [status |-> "MissingValue", buffer |-> buffer]
    ELSE IF ~info.ok THEN [status |-> "Postcard", buffer |-> buffer]
    ELSE IF info.size_in_bytes # buffer.size
    THEN [status |-> "SegmentedBlobSizeMismatch", buffer |-> buffer]
    ELSE IF Len(found.hashed.value.references) < 1 THEN [status |-> "panic", buffer |-> buffer]
    ELSE IF (Len(found.hashed.value.references) - 1) * VALUE_BLOB_MAX_LENGTH > buffer.size
    THEN [status |-> "panic", buffer |-> buffer]
    ELSE IF buffer.size - (Len(found.hashed.value.references) - 1) * VALUE_BLOB_MAX_LENGTH
               > VALUE_BLOB_MAX_LENGTH
    THEN [status |-> "panic", buffer |-> buffer]
    ELSE LoadedFrom(buffer, SegmentedBlocks(found.hashed.value.references, buffer.size))

SegmentedBlobFound(buffer, found) ==
    SegmentedBlobLoaded(buffer, found, postcard_from_bytes(found.hashed.value.blob))

require_loaded(buffer, storage) ==
    IF buffer.loaded THEN [status |-> "ok", buffer |-> buffer]
    ELSE IF buffer.size <= VALUE_BLOB_MAX_LENGTH
    THEN LoadedFrom(buffer, <<NotLoadedBlock(buffer.digest, buffer.size % u16)>>)
    ELSE SegmentedBlobFound(buffer, load_value(storage, buffer.digest))

(***************************************************************************)
(* The Prefetcher: the block indices that reads asked for, most recently   *)
(* used first.                                                             *)
(***************************************************************************)
RECURSIVE WithoutKey(_, _)
WithoutKey(keys, key) ==
    IF keys = <<>> THEN <<>>
    ELSE IF Head(keys) = key THEN WithoutKey(Tail(keys), key)
    ELSE <<Head(keys)>> \o WithoutKey(Tail(keys), key)

add_explicitly_requested_block(prefetcher, requested_block_index) ==
    Take(<<requested_block_index>> \o WithoutKey(prefetcher, requested_block_index),
         max_number_of_blocks_tracked)

RECURSIVE AddRequestedBlocks(_, _, _)
AddRequestedBlocks(prefetcher, from, to) ==
    IF from >= to THEN prefetcher
    ELSE AddRequestedBlocks(add_explicitly_requested_block(prefetcher, from), from + 1, to)

get_blocks_to_access_order(prefetcher) ==
    [block_index \in Range(prefetcher) |->
        (CHOOSE i \in DOMAIN prefetcher : prefetcher[i] = block_index) - 1]

RECURSIVE Sum(_)
Sum(s) == IF s = <<>> THEN 0 ELSE Head(s) + Sum(Tail(s))

detect_from_block_access_order(block_access_order) ==
    LET half == Len(block_access_order) \div 2
        left == Take(block_access_order, half)
        right == IF Len(block_access_order) - half > half
                 THEN Drop(block_access_order, half + 1)
                 ELSE Drop(block_access_order, half)
    IN IF Sum(left) < Sum(right) THEN "Down"
       ELSE IF Sum(left) = Sum(right) THEN "Neither"
       ELSE "Up"

get_prefetch_length_from_streak_length(streak_length) ==
    Min(max_prefetch_length, streak_length * 2)

analyze_streak(highest_block_index_in_streak, streak_order, total_block_count) ==
    LET direction == detect_from_block_access_order(streak_order)
        lowest_block_index_in_streak == highest_block_index_in_streak + 1 - Len(streak_order)
        offsets == 0..(get_prefetch_length_from_streak_length(Len(streak_order)) - 1)
    IN IF direction = "Down"
       THEN {lowest_block_index_in_streak - (offset + 1) : offset \in
                {o \in offsets : lowest_block_index_in_streak - (o + 1) >= 0}}
       ELSE IF direction = "Up"
       THEN {highest_block_index_in_streak + (offset + 1) : offset \in
                {o \in offsets : highest_block_index_in_streak + (o + 1) < total_block_count}}
       ELSE {}

\* The streak of consecutive block indices that ends with highest.
StreakLowest(order, highest) ==
    MinOf({lowest \in DOMAIN order : \A b \in lowest..highest : b \in DOMAIN order})

StreakOrder(order, lowest, highest) ==
    [i \in 1..(highest - lowest + 1) |-> order[lowest + i - 1]]

BlocksToPrefetch(order, total_block_count) ==
    UNION {analyze_streak(highest,
                          StreakOrder(order, StreakLowest(order, highest), highest),
                          total_block_count) :
              highest \in {b \in DOMAIN order : b + 1 \notin DOMAIN order}}

find_blocks_to_prefetch(prefetcher, total_block_count) ==
    BlocksToPrefetch(get_blocks_to_access_order(prefetcher), total_block_count)

\* prefetch: the blocks of to_load that are not loaded are loaded together.
RECURSIVE LoadBlocks(_, _, _)
\* A load that puts an empty block in the place of the loaded one.
LoadOneEmpty(blocks, to_load, storage, index, out) ==
    IF out.status # "ok" THEN [status |-> "panic", blocks |-> blocks]
    ELSE LoadBlocks(SetBlock(blocks, index, KnownDigest(HashedValue(Tree(<<>>, <<>>)))),
                    to_load \ {index}, storage)

LoadOne(blocks, to_load, storage, index, out) ==
    IF out.status # "ok" THEN [status |-> "panic", blocks |-> blocks]
    ELSE LoadBlocks(SetBlock(blocks, index, out.block), to_load \ {index}, storage)

LoadBlocks(blocks, to_load, storage) ==
    IF to_load = {} THEN [status |-> "ok", blocks |-> blocks]
    ELSE LoadOne(blocks, to_load, storage, MinOf(to_load),
                 RequireLoadedBlock(blocks[MinOf(to_load) + 1], storage))

Prefetched(prefetcher, blocks, blocks_to_prefetch, requested, storage) ==
    LET futures == {index \in blocks_to_prefetch \cup requested :
                        blocks[index + 1].kind = "NotLoaded"}
        joined == IF Cardinality(futures) < Cardinality(blocks_to_prefetch) \div 2
                  THEN [status |-> "ok", blocks |-> blocks]
                  ELSE LoadBlocks(blocks, futures, storage)
    IN [status |-> joined.status, blocks |-> joined.blocks, prefetcher |-> prefetcher]

Requested(prefetcher, blocks, requested, storage) ==
    Prefetched(prefetcher, blocks, find_blocks_to_prefetch(prefetcher, Len(blocks)),
               requested, storage)

prefetch(prefetcher, blocks, from, to, storage) ==
    Requested(AddRequestedBlocks(prefetcher, from, Min(to, from + max_number_of_blocks_tracked)),
              blocks,
              from..(Min(to, from + max_number_of_blocks_tracked) - 1),
              storage)

\* A read that returns the rest of the block whatever the count.
ReadRestOfBlock(loaded, out, first_block_index, position_in_block, count, storage) ==
    IF out.status # "ok" THEN [status |-> out.status, buffer |-> loaded, bytes |-> <<>>]
    ELSE LET access == access_content_for_reading(out.blocks[first_block_index + 1], storage)
         IN [status |-> access.status,
             buffer |-> [loaded EXCEPT
                            !.blocks = SetBlock(out.blocks, first_block_index, access.block),
                            !.prefetcher = out.prefetcher],
             bytes |-> IF access.status # "ok" \/ position_in_block > Len(access.bytes)
                       THEN <<>>
                       ELSE Drop(access.bytes, position_in_block)]

\* read_from_blocks: the bytes come from the first block of the range only.
ReadPrefetched(loaded, out, first_block_index, position_in_block, count, storage) ==
    IF out.status # "ok" THEN [status |-> out.status, buffer |-> loaded, bytes |-> <<>>]
    ELSE LET access == access_content_for_reading(out.blocks[first_block_index + 1], storage)
         IN [status |-> access.status,
             buffer |-> [loaded EXCEPT
                            !.blocks = SetBlock(out.blocks, first_block_index, access.block),
                            !.prefetcher = out.prefetcher],
             bytes |-> IF access.status # "ok" \/ position_in_block > Len(access.bytes)
                       THEN <<>>
                       ELSE Take(Drop(access.bytes, position_in_block), count)]

\* The index of the last block that a read touches is computed in u64 as
\* position + count - 1, which underflows when position and count are both 0: a
\* build with overflow checks panics, a build without them wraps around to
\* u64::MAX, and u64::MAX / VALUE_BLOB_MAX_LENGTH is not below any number of blocks.
last_block_index(position, count, block_count, overflow_checks) ==
    IF position + count >= 1
    THEN [status |-> "ok",
          index |-> Min((position + count - 1) \div VALUE_BLOB_MAX_LENGTH, block_count - 1)]
    ELSE IF overflow_checks THEN [status |-> "panic", index |-> 0]
    ELSE [status |-> "ok", index |-> block_count - 1]

ReadUpTo(loaded, position, count, storage, last) ==
    IF last.status # "ok" THEN [status |-> last.status, buffer |-> loaded, bytes |-> <<>>]
    ELSE ReadPrefetched(loaded,
                        prefetch(loaded.prefetcher, loaded.blocks,
                                 position \div VALUE_BLOB_MAX_LENGTH, last.index, storage),
                        position \div VALUE_BLOB_MAX_LENGTH, position % VALUE_BLOB_MAX_LENGTH,
                        count, storage)

read_from_blocks(loaded, position, count, storage, overflow_checks) ==
    IF position \div VALUE_BLOB_MAX_LENGTH >= Len(loaded.blocks)
    THEN [status |-> "ok", buffer |-> loaded, bytes |-> <<>>]
    ELSE ReadUpTo(loaded, position, count, storage,
                  last_block_index(position, count, Len(loaded.blocks), overflow_checks))

ReadLoaded(out, position, count, storage, overflow_checks) ==
    IF out.status # "ok" THEN [status |-> out.status, buffer |-> out.buffer, bytes |-> <<>>]
    ELSE read_from_blocks(out.buffer, position, count, storage, overflow_checks)

\* OpenFileContentBuffer::read in a build with or without overflow checks.
BufferReadBuilt(buffer, position, count, storage, overflow_checks) ==
    ReadLoaded(require_loaded(buffer, storage), position, count, storage, overflow_checks)

\* OpenFileContentBuffer::read of one byte or more: the build makes no difference.
BufferRead(buffer, position, count, storage) ==
    BufferReadBuilt(buffer, position, count, storage, TRUE)

(***************************************************************************)
(* OpenFileContentBuffer::write.  A step of the write works on w: the      *)
(* loaded buffer, the storage and the status so far.                       *)
(***************************************************************************)
Written(status, loaded, storage) == [status |-> status, loaded |-> loaded, storage |-> storage]

\* Blocks are stored before the write when enough of them are dirty.
CheapBlocksStored(out) ==
    IF out.status # "ok" THEN out
    ELSE IF Len(out.loaded.dirty_blocks) * 2 >= write_buffer_in_blocks
    THEN LoadedStoreAll(out.loaded, out.storage)
    ELSE out

\* A write that stores nothing before it modifies blocks.
NothingStoredBeforeWriting(loaded, storage) == Written("ok", loaded, storage)

StoreBeforeWriting(loaded, storage) ==
    IF Len(loaded.dirty_blocks) >= write_buffer_in_blocks
    THEN CheapBlocksStored(store_cheap_blocks(loaded, storage))
    ELSE Written("ok", loaded, storage)

\* A write that takes its end for the size of the file.
ResizedToEndOfWrite(w, position, buf) ==
    IF w.status # "ok" THEN w
    ELSE Written("ok",
                 [w.loaded EXCEPT !.digest.is_digest_up_to_date = FALSE,
                                  !.size = position + OptimizedWriteBufferLen(buf)],
                 w.storage)

\* A write that leaves the digest status as it was.
ResizedKeepingDigestStatus(w, position, buf) ==
    IF w.status # "ok" THEN w
    ELSE Written("ok",
                 [w.loaded EXCEPT !.size = Max(@, position + OptimizedWriteBufferLen(buf))],
                 w.storage)

Resized(w, position, buf) ==
    IF w.status # "ok" THEN w
    ELSE Written("ok",
                 [w.loaded EXCEPT !.digest.is_digest_up_to_date = FALSE,
                                  !.size = Max(@, position + OptimizedWriteBufferLen(buf))],
                 w.storage)

\* The write begins behind the last block: the last block is filled with zeroes.
LastBlockFilled(w, out) ==
    IF out.status # "ok" \/ out.remaining # <<>> THEN Written("panic", w.loaded, w.storage)
    ELSE Written("ok",
                 [w.loaded EXCEPT !.blocks = SetBlock(@, Len(@) - 1, out.block),
                                  !.dirty_blocks = Append(@, Len(w.loaded.blocks) - 1)],
                 w.storage)

RECURSIVE FillerBlocks(_, _)
FillerBlocks(w, first_block_index) ==
    IF w.status # "ok" \/ first_block_index <= Len(w.loaded.blocks) THEN w
    ELSE FillerBlocks(
             Written("ok",
                     [w.loaded EXCEPT
                         !.dirty_blocks = Append(@, Len(w.loaded.blocks)),
                         !.blocks = Append(@, KnownDigest(HashedValue(
                                        Tree(Zeroes(VALUE_BLOB_MAX_LENGTH), <<>>))))],
                     w.storage),
             first_block_index)

Filled(w, first_block_index) ==
    IF w.status # "ok" \/ first_block_index < Len(w.loaded.blocks) THEN w
    ELSE LET last_block == w.loaded.blocks[Len(w.loaded.blocks)]
         IN FillerBlocks(
                LastBlockFilled(w, BlockWrite(last_block, BlockSize(last_block),
                                              Zeroes(VALUE_BLOB_MAX_LENGTH - BlockSize(last_block)),
                                              w.storage)),
                first_block_index)

BlockAppended(w, block) ==
    Written("ok",
            [w.loaded EXCEPT !.dirty_blocks = Append(@, Len(w.loaded.blocks)),
                             !.blocks = Append(@, block)],
            w.storage)

BlockReplaced(w, index, block) ==
    Written("ok",
            [w.loaded EXCEPT !.dirty_blocks = Append(@, index),
                             !.blocks = SetBlock(@, index, block)],
            w.storage)

BlockWritten(w, index, out) ==
    IF out.status # "ok" \/ out.remaining # <<>> THEN Written("panic", w.loaded, w.storage)
    ELSE BlockReplaced(w, index, out.block)

PrefixWritten(w, next_block_index, position_in_block, prefix) ==
    IF w.status # "ok" THEN w
    ELSE IF prefix = <<>> /\ position_in_block = 0 THEN w
    ELSE IF next_block_index = Len(w.loaded.blocks)
    THEN BlockAppended(w, UnknownDigest(Zeroes(position_in_block) \o prefix))
    ELSE BlockWritten(w, next_block_index,
                      BlockWrite(w.loaded.blocks[next_block_index + 1], position_in_block,
                                 prefix, w.storage))

RECURSIVE FullBlocksWritten(_, _, _)
FullBlocksWritten(w, next_block_index, full_blocks) ==
    IF w.status # "ok" \/ full_blocks = <<>> THEN w
    ELSE IF next_block_index = Len(w.loaded.blocks)
    THEN FullBlocksWritten(BlockAppended(w, KnownDigest(Head(full_blocks))),
                           next_block_index + 1, Tail(full_blocks))
    ELSE FullBlocksWritten(BlockReplaced(w, next_block_index, KnownDigest(Head(full_blocks))),
                           next_block_index + 1, Tail(full_blocks))

SuffixWritten(w, next_block_index, suffix) ==
    IF w.status # "ok" \/ suffix = <<>> THEN w
    ELSE IF next_block_index = Len(w.loaded.blocks)
    THEN BlockAppended(w, UnknownDigest(suffix))
    ELSE BlockWritten(w, next_block_index,
                      BlockWrite(w.loaded.blocks[next_block_index + 1], 0, suffix, w.storage))

\* The block index after the prefix.
AfterPrefix(position, buf) ==
    IF buf.prefix = <<>> /\ position % VALUE_BLOB_MAX_LENGTH = 0
    THEN position \div VALUE_BLOB_MAX_LENGTH
    ELSE position \div VALUE_BLOB_MAX_LENGTH + 1

WriteBlocks(w, position, buf) ==
    SuffixWritten(
        FullBlocksWritten(
            PrefixWritten(Filled(w, position \div VALUE_BLOB_MAX_LENGTH),
                          position \div VALUE_BLOB_MAX_LENGTH,
                          position % VALUE_BLOB_MAX_LENGTH, buf.prefix),
            AfterPrefix(position, buf), buf.full_blocks),
        AfterPrefix(position, buf) + Len(buf.full_blocks), buf.suffix)

BufferWritten(buffer, w) == [status |-> w.status, buffer |-> w.loaded, storage |-> w.storage]

WriteLoaded(out, position, buf, storage) ==
    IF out.status # "ok" THEN [status |-> out.status, buffer |-> out.buffer, storage |-> storage]
    ELSE BufferWritten(out.buffer,
                       WriteBlocks(Resized(StoreBeforeWriting(out.buffer, storage),
                                           position, buf),
                                   position, buf))

\* OpenFileContentBuffer::write
BufferWrite(buffer, position, buf, storage) ==
    WriteLoaded(require_loaded(buffer, storage), position, buf, storage)

\* OpenFileContentBuffer::store_all
\* update_digest: the StoreChanges that store_all returns.
StoreChanges(old_digest, digest) ==
    IF old_digest = digest THEN "NoChanges" ELSE "SomeChanges"

AllStored(buffer, w) ==
    [status |-> w.status, buffer |-> w.loaded, storage |-> w.storage,
     changes |-> StoreChanges(buffer.digest, w.loaded.digest)]

BufferStoreAll(buffer, storage) ==
    IF buffer.loaded THEN AllStored(buffer, LoadedStoreAll(buffer, storage))
    ELSE [status |-> "ok", buffer |-> buffer, storage |-> storage, changes |-> "NoChanges"]

\* A truncate that forgets the last known digest.
TruncateForgettingDigest(buffer) == from_data(<<>>, BlobDigestHash(<<>>), 0)

\* OpenFile::truncate replaces the content.
truncate(buffer) ==
    from_data(<<>>, last_known_digest(buffer)[1].last_known_digest, last_known_digest(buffer)[2])

\* drop_all_read_caches: a loaded block of a known digest is no longer kept.
BlockDropped(block) ==
    IF block.kind = "KnownDigest"
    THEN NotLoadedBlock(block.hashed_value.digest, Len(block.hashed_value.value.blob))
    ELSE block

drop_all_read_caches(buffer) ==
    IF buffer.loaded
    THEN [buffer EXCEPT !.blocks = [index \in DOMAIN @ |-> BlockDropped(@[index])]]
    ELSE buffer

(***************************************************************************)
(* The test of the file buffer: every operation is applied to three        *)
(* buffers.  buffers[1] is only written to, buffers[2] is stored after     *)
(* every operation, buffers[3] is recreated from the storage before every  *)
(* operation.  After every operation the buffers are compared.             *)
(***************************************************************************)
Harness(bufs, storage, status, compared) ==
    [buffers |-> bufs, storage |-> storage, status |-> status, compared |-> compared]

Recreated ==
    Harness(<<buffers[1], buffers[2],
              from_storage(last_known_digest(buffers[2])[1].last_known_digest,
                           last_known_digest(buffers[2])[2])>>,
            file_storage, "ok", <<>>)

\* The test unwraps the result of every call.
BufferDone(h, i, out) ==
    IF out.status # "ok" THEN [h EXCEPT !.status = "panic"]
    ELSE [h EXCEPT !.buffers[i] = out.buffer, !.storage = out.storage]

WriteToBuffer(h, i, position, data) ==
    IF h.status # "ok" THEN h
    ELSE BufferDone(h, i, BufferWrite(h.buffers[i], position, from_bytes(position, data),
                                      h.storage))

write_to_all_buffers(h, position, data) ==
    WriteToBuffer(WriteToBuffer(WriteToBuffer(h, 1, position, data), 2, position, data),
                  3, position, data)

StoreBuffer(h, i) ==
    IF h.status # "ok" THEN h
    ELSE BufferDone(h, i, BufferStoreAll(h.buffers[i], h.storage))

AllSaved(h) ==
    IF h.status # "ok" THEN h
    ELSE IF Cardinality({last_known_digest(h.buffers[i]) : i \in DOMAIN h.buffers}) # 1
    THEN [h EXCEPT !.status = "assert"]
    ELSE h

save_all_buffers(h) == AllSaved(StoreBuffer(StoreBuffer(StoreBuffer(h, 1), 2), 3))

\* What the three buffers read at a position.
AllRead(h, r1, r2, r3) ==
    IF r1.status # "ok" \/ r2.status # "ok" \/ r3.status # "ok"
    THEN [h |-> [h EXCEPT !.status = "panic"], bytes |-> <<>>]
    ELSE IF r1.bytes # r2.bytes \/ r1.bytes # r3.bytes
    THEN [h |-> [h EXCEPT !.status = "assert"], bytes |-> <<>>]
    ELSE [h |-> [h EXCEPT !.buffers = <<r1.buffer, r2.buffer, r3.buffer>>], bytes |-> r1.bytes]

ReadAll(h, position, count) ==
    AllRead(h, BufferRead(h.buffers[1], position, count, h.storage),
               BufferRead(h.buffers[2], position, count, h.storage),
               BufferRead(h.buffers[3], position, count, h.storage))

RECURSIVE CompareLoop(_, _, _)
Checked(h, checked, expected_size, read) ==
    IF read.h.status # "ok" THEN read.h
    ELSE IF read.bytes = <<>> THEN [read.h EXCEPT !.status = "hang"]
    ELSE CompareLoop([read.h EXCEPT !.compared = @ \o read.bytes],
                     checked + Len(read.bytes), expected_size)

CompareLoop(h, checked, expected_size) ==
    IF checked >= expected_size THEN h
    ELSE Checked(h, checked, expected_size, ReadAll(h, checked, expected_size - checked))

compare_buffers(h) ==
    IF h.status # "ok" THEN h
    ELSE IF Cardinality({BufferSize(h.buffers[i]) : i \in DOMAIN h.buffers}) # 1
    THEN [h EXCEPT !.status = "assert"]
    ELSE CompareLoop(h, 0, BufferSize(h.buffers[1]))

\* buffers[2] is forced into the storage after every operation.
Compared(h) == compare_buffers(StoreBuffer(h, 2))

\* CopyBlock: the block is written when all of it could be read.
BlockCopied(read, to_block_index) ==
    IF read.h.status # "ok" \/ Len(read.bytes) # VALUE_BLOB_MAX_LENGTH THEN read.h
    ELSE write_to_all_buffers(read.h, to_block_index * VALUE_BLOB_MAX_LENGTH, read.bytes)

TruncateAll(h) ==
    [h EXCEPT !.buffers = [i \in DOMAIN h.buffers |-> truncate(h.buffers[i])]]

\* The content of a file after a write: a write behind the end fills the gap with
\* zeroes.
FlatWrite(content, position, data) ==
    [i \in 1..Max(Len(content), position + Len(data)) |->
        IF i > position /\ i <= position + Len(data) THEN data[i - position]
        ELSE IF i <= Len(content) THEN content[i]
        ELSE 0]

FlatCopy(content, from_block_index, to_block_index) ==
    IF (from_block_index + 1) * VALUE_BLOB_MAX_LENGTH > Len(content) THEN content
    ELSE FlatWrite(content, to_block_index * VALUE_BLOB_MAX_LENGTH,
                   SubSeq(content, from_block_index * VALUE_BLOB_MAX_LENGTH + 1,
                          (from_block_index + 1) * VALUE_BLOB_MAX_LENGTH))

\* The bytes of a write are told apart from those of every other write.
Data(length) == [i \in 1..length |-> 10 * (operations + 1) + i]

Operated(operation, h, content) ==
    /\ buffers' = h.buffers
    /\ file_storage' = h.storage
    /\ file_content' = content
    /\ operations' = operations + 1
    /\ file_ret' = [op |-> operation, status |-> h.status, compared |-> h.compared]

CanOperate == operations < MaxOperations /\ file_ret.status = "ok"

Write ==
    /\ CanOperate
    /\ \E position \in 0..MaxPosition : \E length \in 0..MaxDataLength :
          Operated("Write",
                   Compared(write_to_all_buffers(Recreated, position, Data(length))),
                   FlatWrite(file_content, position, Data(length)))
    /\ UNCHANGED <<storage_vars, segmented_vars, task_vars, sorted_vars>>

Nothing ==
    /\ CanOperate
    /\ Operated("Nothing", Compared(Recreated), file_content)
    /\ UNCHANGED <<storage_vars, segmented_vars, task_vars, sorted_vars>>

CopyBlock ==
    /\ CanOperate
    /\ \E from_block_index \in 0..(MaxPosition \div VALUE_BLOB_MAX_LENGTH) :
       \E to_block_index \in 0..(MaxPosition \div VALUE_BLOB_MAX_LENGTH) :
          Operated("CopyBlock",
                   Compared(BlockCopied(ReadAll(Recreated,
                                                from_block_index * VALUE_BLOB_MAX_LENGTH,
                                                VALUE_BLOB_MAX_LENGTH),
                                        to_block_index)),
                   FlatCopy(file_content, from_block_index, to_block_index))
    /\ UNCHANGED <<storage_vars, segmented_vars, task_vars, sorted_vars>>

SaveToStorage ==
    /\ CanOperate
    /\ Operated("SaveToStorage", Compared(save_all_buffers(Recreated)), file_content)
    /\ UNCHANGED <<storage_vars, segmented_vars, task_vars, sorted_vars>>

Truncate ==
    /\ CanOperate
    /\ Operated("Truncate", Compared(TruncateAll(Recreated)), <<>>)
    /\ UNCHANGED <<storage_vars, segmented_vars, task_vars, sorted_vars>>

(***************************************************************************)
(* One open file on a storage that loses values: buffers[1] is written to, *)
(* stored and opened again from the storage, and keeps what a failed call  *)
(* left in it.                                                             *)
(***************************************************************************)
\* The state after a call on buffers[1] returned out.
Called(operation, out, content) ==
    /\ buffers' = [buffers EXCEPT ![1] = out.buffer]
    /\ file_storage' = out.storage
    /\ file_content' = IF out.status = "ok" THEN content ELSE file_content
    /\ operations' = operations + 1
    /\ file_ret' = [op |-> operation, status |-> out.status, compared |-> <<>>]

WriteAlone ==
    /\ CanOperate
    /\ \E position \in 0..MaxPosition : \E length \in 0..MaxDataLength :
          Called("write",
                 BufferWrite(buffers[1], position, from_bytes(position, Data(length)),
                             file_storage),
                 FlatWrite(file_content, position, Data(length)))
    /\ UNCHANGED <<storage_vars, segmented_vars, task_vars, sorted_vars>>

\* The state after store_all on buffers[1] returned out.
StoredAlone(out) ==
    /\ buffers' = [buffers EXCEPT ![1] = out.buffer]
    /\ file_storage' = out.storage
    /\ file_content' = file_content
    /\ operations' = operations + 1
    /\ file_ret' = [op |-> "store_all", status |-> out.status, compared |-> <<>>,
                    changes |-> out.changes]

StoreAlone ==
    /\ CanOperate
    /\ StoredAlone(BufferStoreAll(buffers[1], file_storage))
    /\ UNCHANGED <<storage_vars, segmented_vars, task_vars, sorted_vars>>

\* store_cheap_blocks on the loaded buffer.
CheapBlocksStoredAlone(out) ==
    Called("store_cheap_blocks",
           [status |-> out.status, buffer |-> out.loaded, storage |-> out.storage],
           file_content)

StoreCheapBlocksAlone ==
    /\ CanOperate
    /\ buffers[1].loaded
    /\ CheapBlocksStoredAlone(store_cheap_blocks(buffers[1], file_storage))
    /\ UNCHANGED <<storage_vars, segmented_vars, task_vars, sorted_vars>>

\* The file is closed and opened again from the digest it was stored under.
OpenAgain ==
    /\ CanOperate
    /\ buffers[1].loaded
    /\ buffers[1].digest.is_digest_up_to_date
    /\ buffers' = [buffers EXCEPT ![1] = from_storage(buffers[1].digest.last_known_digest,
                                                      buffers[1].last_known_digest_file_size)]
    /\ file_ret' = [op |-> "open", status |-> "ok", compared |-> <<>>]
    /\ UNCHANGED <<storage_vars, segmented_vars, task_vars, sorted_vars, file_storage, file_content,
                   operations>>

\* The storage no longer has a value: a load of it fails.
StorageLoses ==
    /\ CanOperate
    /\ \E hashed \in file_storage : file_storage' = file_storage \ {hashed}
    /\ file_ret' = [op |-> "lose", status |-> "ok", compared |-> <<>>]
    /\ UNCHANGED <<storage_vars, segmented_vars, task_vars, sorted_vars, buffers, file_content, operations>>

FileInit ==
    /\ buffers = [i \in 1..3 |-> from_data(<<>>, BlobDigestHash(<<>>), 0)]
    /\ file_storage = {}
    /\ file_content = <<>>
    /\ operations = 0
    /\ file_ret = [op |-> "init", status |-> "ok", compared |-> <<>>]

(***************************************************************************)
(* Segmented blobs: save_segmented_blob and load_segmented_blob of         *)
(* dogbox_tree_editor::segmented_blob, driven as the fuzz function         *)
(* run_test_case drives them.                                              *)
(***************************************************************************)
\* The most segments of one blob.
MaxSegments == 5
\* The largest max_children_per_tree.
MaxChildrenPerTree == 3
\* The smallest max_children_per_tree the callers pass.
MinChildrenPerTree == 2

\* The blobs of the segments.
SegmentBlobs == {<<0>>, <<1>>, <<0, 0>>}
\* The total sizes the callers pass: nothing, one byte of varint, and two.
TotalSizes == {0, 3, 300}

NoReference == <<>>

\* A tree without children is one segment.
Leaf(blob) == HashedValue(Tree(blob, <<>>))

\* The tree of one layer: the size in its blob, the references below it in order.
IndexTree(size_in_bytes, references) ==
    HashedValue(Tree(postcard_to_allocvec(size_in_bytes), references))

\* An item of a layer: the reference and the size of the bytes below it. A
\* segment counts as a full blob.
Item(reference, size) == [reference |-> reference, size |-> size]
References(items) == [i \in 1..Len(items) |-> items[i].reference]

RECURSIVE ItemsSize(_)
ItemsSize(items) ==
    IF items = <<>> THEN 0 ELSE Head(items).size + ItemsSize(Tail(items))

\* Groups of one item more than max_children_per_tree.
RECURSIVE ChunksOfOneMore(_, _)
ChunksOfOneMore(items, max_children_per_tree) ==
    IF Len(items) <= max_children_per_tree + 1 THEN <<items>>
    ELSE <<Take(items, max_children_per_tree + 1)>>
         \o ChunksOfOneMore(Drop(items, max_children_per_tree + 1), max_children_per_tree)

\* The items in groups of max_children_per_tree, the earlier items first.
RECURSIVE Chunks(_, _)
Chunks(items, max_children_per_tree) ==
    IF Len(items) <= max_children_per_tree THEN <<items>>
    ELSE <<Take(items, max_children_per_tree)>>
         \o Chunks(Drop(items, max_children_per_tree), max_children_per_tree)

Saved(status, reference, storage) ==
    [status |-> status, reference |-> reference, storage |-> storage]

\* One group: a single item stays what it is, more become one index tree.
SaveGroup(items, size_in_bytes, storage) ==
    IF Len(items) = 1 THEN Saved("ok", items[1].reference, storage)
    ELSE Saved("ok", IndexTree(size_in_bytes, References(items)).digest,
               store_value(storage, IndexTree(size_in_bytes, References(items))))

\* The groups of one layer, saved from left to right; the result is the next layer.
RECURSIVE SaveGroups(_, _, _)
SaveNextGroup(groups, saved, size, layer) ==
    SaveGroups(groups, saved.storage, Append(layer, Item(saved.reference, size)))
SaveGroups(groups, storage, layer) ==
    IF groups = <<>> THEN [storage |-> storage, layer |-> layer]
    ELSE SaveNextGroup(Tail(groups), SaveGroup(Head(groups), ItemsSize(Head(groups)), storage),
                       ItemsSize(Head(groups)), layer)

RECURSIVE SaveLayers(_, _, _, _)
SaveNextLayer(saved, total_size, max_children_per_tree) ==
    SaveLayers(saved.layer, total_size, max_children_per_tree, saved.storage)
SaveLayers(items, total_size, max_children_per_tree, storage) ==
    IF Len(items) = 0 THEN Saved("Unrepresentable", NoReference, storage)
    ELSE IF Len(items) <= max_children_per_tree THEN SaveGroup(items, total_size, storage)
    ELSE SaveNextLayer(SaveGroups(Chunks(items, max_children_per_tree), storage, <<>>),
                       total_size, max_children_per_tree)

save_segmented_blob(segment_references, total_size, max_children_per_tree, storage) ==
    SaveLayers([i \in 1..Len(segment_references) |->
                   Item(segment_references[i], VALUE_BLOB_MAX_LENGTH)],
               total_size, max_children_per_tree, storage)

Loaded(status, loaded_segments, size) ==
    [status |-> status, segments |-> loaded_segments, size |-> size]

\* The segments below the references, from left to right.
LoadedBelow(flat, size_in_bytes) ==
    IF flat.status # "ok" THEN flat
    ELSE Loaded("ok", flat.segments, size_in_bytes)
RECURSIVE Flatten(_, _)
FlattenedRest(first, rest) ==
    IF rest.status # "ok" THEN rest
    ELSE Loaded("ok", first.segments \o rest.segments, 0)
FlattenRest(first, references, storage) ==
    IF first.status # "ok" THEN first
    ELSE FlattenedRest(first, Flatten(references, storage))
FlattenOne(reference, found, storage) ==
    IF ~found.is_some THEN Loaded("TreeNotFound", <<>>, 0)
    ELSE IF found.hashed.value.references = <<>> THEN Loaded("ok", <<reference>>, 0)
    ELSE IF ~postcard_from_bytes(found.hashed.value.blob).ok
    THEN Loaded("Deserialization", <<>>, 0)
    ELSE Flatten(found.hashed.value.references, storage)
Flatten(references, storage) ==
    IF references = <<>> THEN Loaded("ok", <<>>, 0)
    ELSE FlattenRest(FlattenOne(Head(references), load_value(storage, Head(references)), storage),
                     Tail(references), storage)

LoadedRoot(root, found, storage) ==
    IF ~found.is_some THEN Loaded("TreeNotFound", <<>>, 0)
    ELSE IF found.hashed.value.references = <<>>
    THEN Loaded("ok", <<root>>, Len(found.hashed.value.blob))
    ELSE IF ~postcard_from_bytes(found.hashed.value.blob).ok
    THEN Loaded("Deserialization", <<>>, 0)
    ELSE LoadedBelow(Flatten(found.hashed.value.references, storage),
                     postcard_from_bytes(found.hashed.value.blob).size_in_bytes)

load_segmented_blob(root, storage) == LoadedRoot(root, load_value(storage, root), storage)

SegmentedRet(op, status, total_size, max_children_per_tree, reference, loaded) ==
    [op |-> op, status |-> status, total_size |-> total_size,
     max_children_per_tree |-> max_children_per_tree, reference |-> reference,
     loaded_segments |-> loaded.segments, loaded_size |-> loaded.size]

NothingLoaded == Loaded("ok", <<>>, 0)

\* run_test_case stores one more segment.
StoreSegment ==
    /\ segmented_ret.op \in {"init", "store_segment"}
    /\ Len(segments) < MaxSegments
    /\ \E blob \in SegmentBlobs :
        /\ segment_storage' = store_value(segment_storage, Leaf(blob))
        /\ segments' = Append(segments, Leaf(blob).digest)
    /\ segmented_ret' = SegmentedRet("store_segment", "ok", 0, 0, NoReference, NothingLoaded)
    /\ UNCHANGED <<storage_vars, task_vars, sorted_vars, file_vars>>

SegmentsSaved(saved, total_size, max_children_per_tree) ==
    /\ segment_storage' = saved.storage
    /\ segmented_ret' = SegmentedRet("save", saved.status, total_size, max_children_per_tree,
                                     saved.reference, NothingLoaded)

SaveSegmentedBlob ==
    /\ segmented_ret.op \in {"init", "store_segment"}
    /\ \E total_size \in TotalSizes, max_children_per_tree \in MinChildrenPerTree..MaxChildrenPerTree :
        SegmentsSaved(save_segmented_blob(segments, total_size, max_children_per_tree,
                                          segment_storage),
                      total_size, max_children_per_tree)
    /\ UNCHANGED <<storage_vars, task_vars, sorted_vars, file_vars, segments>>

SegmentsLoaded(loaded) ==
    segmented_ret' = SegmentedRet("load", loaded.status, segmented_ret.total_size,
                                  segmented_ret.max_children_per_tree,
                                  segmented_ret.reference, loaded)

LoadSegmentedBlob ==
    /\ segmented_ret.op = "save"
    /\ segmented_ret.status = "ok"
    /\ SegmentsLoaded(load_segmented_blob(segmented_ret.reference, segment_storage))
    /\ UNCHANGED <<storage_vars, task_vars, sorted_vars, file_vars, segments, segment_storage>>

SegmentedInit ==
    /\ segments = <<>>
    /\ segment_storage = {}
    /\ segmented_ret = SegmentedRet("init", "ok", 0, 0, NoReference, NothingLoaded)

\* The engines and the cache after construction.
StorageEmpty ==
    /\ reference_to_tree = EmptyMap
    /\ tree_table = {}
    /\ reference_table = {}
    /\ root_table = [name \in RootNames |-> None]
    /\ additional_roots = EmptyMap
    /\ last_gc_additional_roots_len = 0
    /\ transaction = None
    /\ durable = [tree |-> {}, reference |-> {}, root |-> [name \in RootNames |-> None]]
    /\ entries = <<>>
    /\ held = EmptyMap
    /\ gc_removed = {}
    /\ ret = Ret("init", "ok")

StorageInit ==
    /\ scope = Scope(ChainDigests, {"a"}, {})
    /\ engine \in {"mem", "sql"}
    /\ StorageEmpty

vars == <<storage_vars, file_vars, segmented_vars, task_vars, sorted_vars>>

Init == StorageInit /\ FileInit /\ SegmentedInit /\ NoTasks /\ SortedTreeInit

Next ==
    \/ StoreTreeMem
    \/ LoadTreeMem
    \/ CollectSomeGarbageMem
    \/ StoreTreeSql
    \/ LoadTreeSql
    \/ UpdateRootSql
    \/ LoadRootSql
    \/ CollectSomeGarbageSql
    \/ CommitChangesSql
    \/ LoadTreeCache
    \/ CloneReference
    \/ DropReference

Spec == Init /\ [][Next]_vars

\* The file test; the storage engines are not used.
StorageIdle ==
    /\ scope = Scope({}, {}, {})
    /\ engine = "mem"
    /\ StorageEmpty

InitFile == StorageIdle /\ FileInit /\ SegmentedInit /\ NoTasks /\ SortedTreeInit

NextFile ==
    \/ Write
    \/ Nothing
    \/ CopyBlock
    \/ SaveToStorage
    \/ Truncate

SpecFile == InitFile /\ [][NextFile]_vars

\* One open file on a storage that loses values.
NextFileAlone ==
    \/ WriteAlone
    \/ StoreAlone
    \/ OpenAgain
    \/ StorageLoses

SpecFileAlone == InitFile /\ [][NextFileAlone]_vars

\* One open file whose blocks are stored by store_cheap_blocks and by store_all.
NextStore ==
    \/ WriteAlone
    \/ StoreCheapBlocksAlone
    \/ StoreAlone
    \/ OpenAgain

SpecStore == InitFile /\ [][NextStore]_vars

\* SQLiteStorage alone, with callers that look at what every call returns.
SqlObserved == {"update_root", "load_root", "commit_changes", "collect_some_garbage"}

StorageInitSql ==
    /\ scope = Scope(ChainDigests, RootNames, SqlObserved)
    /\ engine = "sql"
    /\ StorageEmpty

InitSql == StorageInitSql /\ FileInit /\ SegmentedInit /\ NoTasks /\ SortedTreeInit

NextSql ==
    \/ StoreTreeSql
    \/ LoadTreeSql
    \/ UpdateRootSql
    \/ LoadRootSql
    \/ CollectSomeGarbageSql
    \/ CommitChangesSql
    \/ CloneReference
    \/ DropReference

SpecSql == InitSql /\ [][NextSql]_vars

\* Both engines, with callers that look at what collect_some_garbage returns.
InitGc ==
    /\ scope = Scope(ChainDigests, {"a"}, {"collect_some_garbage", "load_tree"})
    /\ engine \in {"mem", "sql"}
    /\ StorageEmpty
    /\ FileInit /\ SegmentedInit /\ NoTasks /\ SortedTreeInit

SpecGc == InitGc /\ [][Next]_vars

\* The SQLite engine with the calls that hand out references followed, for the two
\* leaves and the parent of one of them.
InitHandedOut ==
    /\ scope = Scope(Digests \ {3}, {"a"}, {"store_tree", "load_tree", "load_root"})
    /\ engine = "sql"
    /\ StorageEmpty
    /\ FileInit /\ SegmentedInit /\ NoTasks /\ SortedTreeInit

SpecHandedOut == InitHandedOut /\ [][NextSql]_vars

\* The SQLite engine with a reference table that is changed outside of the program.
InitReferences ==
    /\ scope = Scope(ChainDigests, {}, {"load_tree"})
    /\ engine = "sql"
    /\ StorageEmpty
    /\ FileInit /\ SegmentedInit /\ NoTasks /\ SortedTreeInit

NextReferences ==
    \/ StoreTreeSql
    \/ LoadTreeSql
    \/ CollectSomeGarbageSql
    \/ CommitChangesSql
    \/ DamageReferenceSql
    \/ DropReference

SpecReferences == InitReferences /\ [][NextReferences]_vars

\* Concurrent calls on one InMemoryTreeStorage.
InitConcurrent ==
    /\ scope = Scope({1, 2}, {}, {"store_tree"})
    /\ engine = "mem"
    /\ StorageEmpty
    /\ FileInit
    /\ SegmentedInit
    /\ tasks = [task \in Tasks |-> NoTask]
    /\ entries_lock = None
    /\ SortedTreeInit

NextConcurrent ==
    \/ \E task \in Tasks : BeginStoreTree(task)
    \/ \E task \in Tasks : StoreTreeLoadChild(task)
    \/ \E task \in Tasks : StoreTreeInsert(task)
    \/ LoadTreeMem
    \/ CollectSomeGarbageMem
    \/ ClearMem
    \/ DropReference

SpecConcurrent == InitConcurrent /\ [][NextConcurrent]_vars

\* Concurrent load_tree calls on one LoadCache over either engine.
InitCacheTasks ==
    /\ scope = Scope({1, 2}, {}, {"cache_load_tree"})
    /\ engine \in {"mem", "sql"}
    /\ StorageEmpty
    /\ FileInit
    /\ SegmentedInit
    /\ tasks = [task \in Tasks |-> NoTask]
    /\ entries_lock = None
    /\ SortedTreeInit

NextCacheTasks ==
    \/ StoreTreeMem
    \/ StoreTreeSql
    \/ DropReference
    \/ \E task \in Tasks : BeginCacheLoad(task)
    \/ \E task \in Tasks : CacheLock(task)
    \/ \E task \in Tasks : CacheLookup(task)
    \/ \E task \in Tasks : CacheBackingLoad(task)
    \/ \E task \in Tasks : CacheSet(task)

SpecCacheTasks == InitCacheTasks /\ [][NextCacheTasks]_vars

\* The engines under a LoadCache, with callers that look at what the cache returns.
StorageInitCache ==
    /\ scope = Scope(ChainDigests, {"a"}, {"cache_load_tree"})
    /\ engine \in {"mem", "sql"}
    /\ StorageEmpty

InitCache == StorageInitCache /\ FileInit /\ SegmentedInit /\ NoTasks /\ SortedTreeInit

SpecCache == InitCache /\ [][Next]_vars

\* The same, with a database file that is damaged outside of the program.
StorageInitDamage ==
    /\ scope = Scope(ChainDigests, {}, {"cache_load_tree"})
    /\ engine \in {"mem", "sql"}
    /\ StorageEmpty

InitDamage == StorageInitDamage /\ FileInit /\ SegmentedInit /\ NoTasks /\ SortedTreeInit

NextDamage ==
    \/ StoreTreeMem
    \/ CollectSomeGarbageMem
    \/ StoreTreeSql
    \/ CollectSomeGarbageSql
    \/ CommitChangesSql
    \/ DamageTreeSql
    \/ LoadTreeCache
    \/ DropReference

SpecDamage == InitDamage /\ [][NextDamage]_vars

\* SQLiteStorage alone, with the database file as a crash would leave it.
StorageInitDurable ==
    /\ scope = Scope(ChainDigests, {"a"}, {"file", "commit_changes"})
    /\ engine = "sql"
    /\ StorageEmpty

InitDurable == StorageInitDurable /\ FileInit /\ SegmentedInit /\ NoTasks /\ SortedTreeInit

SpecDurable == InitDurable /\ [][NextSql]_vars

\* The segmented blob test; neither the storage engines nor the file are used.
InitSegmented == StorageIdle /\ FileInit /\ SegmentedInit /\ NoTasks /\ SortedTreeInit

NextSegmented ==
    \/ StoreSegment
    \/ SaveSegmentedBlob
    \/ LoadSegmentedBlob

SpecSegmented == InitSegmented /\ [][NextSegmented]_vars

StoredDigests ==
    IF engine = "mem" THEN DOMAIN reference_to_tree ELSE {row.digest : row \in tree_table}

TreeCount == IF engine = "mem" THEN MemTreeCount ELSE SqlTreeCount

TypeOK == StoredDigests \subseteq Digests

(***************************************************************************)
(* Properties of the storage engines.                                      *)
(***************************************************************************)
\* The StrongReferences with a token that exist outside of the engine: those the
\* application holds and those a LoadCache entry holds.
LiveReferences ==
    DOMAIN held
    \cup {entries[i].reference : i \in DOMAIN entries}
    \cup UNION {{c \in Range(entries[i].tree.children) : c.impl # None} :
                   i \in DOMAIN entries}

\* The digests reachable from digest d through child references.
RECURSIVE Reachable(_)
Reachable(d) == {d} \cup UNION {Reachable(c) : c \in Range(TreeUniverse[d].children)}

\* C1: no garbage collection, explicit or automatic, removes a digest to which a
\* StrongReference obtained from the engine is alive, in either engine.
GcSparesLiveReferences ==
    \A d \in gc_removed : \A r \in LiveReferences : r.digest # d

\* A collection has just removed a tree while the application holds a reference to
\* another tree that is stored.
GcRemovedBesideLiveReference ==
    /\ gc_removed # {}
    /\ \E r \in DOMAIN held : r.digest \in StoredDigests

\* C2: in SQLiteStorage the target of every root and every digest reachable from it
\* through child references is stored, whatever garbage collections ran and
\* whether or not any StrongReference is alive.
RootsPinReachableTrees ==
    engine = "sql" =>
        \A name \in RootNames :
            root_table[name] # None => Reachable(root_table[name]) \subseteq StoredDigests

\* With every StrongReference dropped, a collection has just removed tree 3 and kept
\* tree 1, the target of root "a", together with its child.
GcKeptRootWithoutReferences ==
    /\ engine = "sql"
    /\ root_table["a"] = 1
    /\ LiveReferences = {}
    /\ gc_removed = {3}

\* C3: in both engines every child digest of every stored tree is stored.
ClosedReferenceGraph ==
    /\ \A d \in DOMAIN reference_to_tree :
           \A c \in Range(RefDigests(reference_to_tree[d].tree.children)) :
               c \in DOMAIN reference_to_tree
    /\ \A row \in tree_table :
           \A c \in Range(TreeUniverse[row.digest].children) :
               \E child \in tree_table : child.digest = c
    /\ \A ref \in reference_table : \E child \in tree_table : child.digest = ref.target

\* In the in-memory engine a collection has just removed tree 3 and kept tree 1, whose
\* child 2 nobody but the entry of tree 1 refers to.
GcKeptChildOfStoredParent ==
    /\ engine = "mem"
    /\ 3 \in gc_removed
    /\ 1 \in DOMAIN reference_to_tree
    /\ \A r \in LiveReferences : r.digest # 2

\* The children of tree d that are not stored.
AbsentChildren(d) == {c \in Range(TreeUniverse[d].children) : c \notin StoredDigests}

\* store_tree of d in the in-memory engine returned out: with an absent child it
\* failed, and a failure names a child that could not be loaded and inserted nothing
\* (the expired entry of the named child is gone when there was one).
MemStoreOutcome(out, d) ==
    /\ AbsentChildren(d) # {} => out.status = "TreeMissing"
    /\ out.status = "TreeMissing" =>
           /\ out.detail \in Range(TreeUniverse[d].children)
           /\ MemLoadTree(reference_to_tree, out.detail).status = "TreeNotFound"
           /\ out.m = MapRemove(reference_to_tree, out.detail)

\* store_tree of d in SQLiteStorage returned out: with an absent child it failed, and
\* a failure names an absent child and left the tables as they were.
SqlStoreOutcome(out, d) ==
    /\ AbsentChildren(d) # {} => out.status = "TreeMissing"
    /\ out.status = "TreeMissing" =>
           /\ out.detail \in AbsentChildren(d)
           /\ out.db.tree = tree_table
           /\ out.db.reference = reference_table
           /\ out.db.root = root_table

\* C4 (as amended): store_tree of a tree with a child that is not stored fails with
\* TreeMissing; a failed store_tree names a child that cannot be loaded and inserts
\* nothing: SQLiteStorage has the tree and reference rows it had before, the
\* in-memory engine has the entries it had before except that the expired entry of
\* the named child is removed.
FailedStoreInsertsNothing ==
    \A d \in scope.digests : \A tree \in CallerTrees(d) :
        IF engine = "mem"
        THEN MemStoreOutcome(MemStoreTree(reference_to_tree, tree, d), d)
        ELSE SqlStoreOutcome(SqlStoreTree(SQLiteState, tree, d), d)

\* SQLiteStorage has just failed to store tree 3: its child 2 is stored, so that the
\* tree row and a reference row were inserted before child 1 was found absent.
StoreFailedAfterInserting ==
    /\ engine = "sql"
    /\ ret = Ret("store_tree", "TreeMissing")
    /\ StoredDigests = {2}

\* C4 as stated: store_tree of a tree with a child that is not stored fails with
\* TreeMissing naming a child that is not stored, and the stored trees and the
\* reference rows are exactly what they were before the call.
FailedStoreChangesNothing ==
    \A d \in scope.digests : \A tree \in CallerTrees(d) :
        AbsentChildren(d) # {} =>
            IF engine = "mem"
            THEN LET out == MemStoreTree(reference_to_tree, tree, d)
                 IN /\ out.status = "TreeMissing"
                    /\ out.detail \in AbsentChildren(d)
                    /\ out.m = reference_to_tree
            ELSE LET out == SqlStoreTree(SQLiteState, tree, d)
                 IN /\ out.status = "TreeMissing"
                    /\ out.detail \in AbsentChildren(d)
                    /\ out.db.tree = tree_table
                    /\ out.db.reference = reference_table

\* load_tree returned out: it succeeded, and hash() is the tree of digest d with
\* its blob and its children in their order.
LoadsTheTree(out, d) ==
    /\ out.status = "ok"
    /\ out.hashed = d
    /\ out.tree.blob = TreeUniverse[d].blob
    /\ RefDigests(out.tree.children) = TreeUniverse[d].children

\* C5: while a StrongReference that store_tree or load_tree returned is held,
\* load_tree of its digest succeeds, from the engine and through the LoadCache, and
\* hash() yields the tree that was stored.
StoreLoadRoundTrip ==
    \A r \in DOMAIN held :
        /\ LoadsTheTree(BackingLoadTree(r.digest), r.digest)
        /\ LoadsTheTree(LoadCacheLoadTree(entries, r.digest), r.digest)

\* SQLiteStorage has just stored tree 3, the application holds the reference, and the
\* LoadCache holds another tree.
StoredParentIsHeld ==
    /\ engine = "sql"
    /\ ret = Ret("store_tree", "ok")
    /\ \E r \in DOMAIN held : r.digest = 3
    /\ \E i \in DOMAIN entries : entries[i].key # 3

\* The step is a successful store_tree of tree with digest d.
StoredTree(d, tree) ==
    /\ ret' = Ret("store_tree", "ok")
    /\ IF engine = "mem"
       THEN LET out == MemStoreTree(reference_to_tree, tree, d)
            IN /\ out.status = "ok"
               /\ reference_to_tree' = out.m
               /\ held' = AddRefs(held, <<out.reference>>)
       ELSE LET out == SqlStoreTree(SQLiteState, tree, d)
            IN /\ out.status = "ok"
               /\ tree_table' = out.db.tree
               /\ reference_table' = out.db.reference
               /\ additional_roots' = out.db.roots
               /\ held' = AddRefs(held, <<out.reference>>)

\* store_tree of tree with digest d would succeed with a reference to d, add no tree
\* and leave the tree stored for d and its children as they are.
StoringAgainChangesNothing(d, tree) ==
    IF engine = "mem"
    THEN LET out == MemStoreTree(reference_to_tree, tree, d)
         IN /\ out.status = "ok"
            /\ out.reference.digest = d
            /\ DOMAIN out.m = DOMAIN reference_to_tree
            /\ out.m[d].tree = reference_to_tree[d].tree
            /\ RefDigests(out.m[d].children) = RefDigests(reference_to_tree[d].children)
    ELSE LET out == SqlStoreTree(SQLiteState, tree, d)
             ids == {row.id : row \in ExistingRows(SQLiteState, d)}
         IN /\ out.status = "ok"
            /\ out.reference.digest = d
            /\ Cardinality(out.db.tree) <= Cardinality(tree_table)
            /\ {row \in out.db.tree : row.digest = d} = {row \in tree_table : row.digest = d}
            /\ {ref \in out.db.reference : ref.origin \in ids}
                   = {ref \in reference_table : ref.origin \in ids}

\* C6: store_tree is idempotent: after a successful store_tree(t) a second
\* store_tree(t) succeeds with a reference to the same digest, the two calls
\* together add at most one tree, and the second call leaves the stored tree and its
\* children unchanged.
StoreTreeIdempotent ==
    [][\A d \in scope.digests : \A tree \in CallerTrees(d) :
           StoredTree(d, tree) =>
               /\ d \in StoredDigests'
               /\ TreeCount' <= TreeCount + 1
               /\ StoringAgainChangesNothing(d, tree)']_vars

\* The in-memory engine has just stored tree 3 for the second time.
StoredTwice ==
    /\ engine = "mem"
    /\ ret = Ret("store_tree", "ok")
    /\ \E r \in DOMAIN held : r.digest = 3 /\ held[r] = MaxHeld

(***************************************************************************)
(* Properties of the open file buffer.                                     *)
(***************************************************************************)
RECURSIVE BlockSizes(_)
BlockSizes(blocks) ==
    IF blocks = <<>> THEN 0 ELSE BlockSize(Head(blocks)) + BlockSizes(Tail(blocks))

\* The size of a loaded buffer is the sum of the sizes of its blocks, and its digest
\* is not up to date while blocks are dirty.
SelfConsistent(buffer) ==
    buffer.loaded =>
        /\ buffer.size = BlockSizes(buffer.blocks)
        /\ buffer.digest.is_digest_up_to_date => buffer.dirty_blocks = <<>>

\* C7: after every sequence of successful operations a loaded buffer has at least
\* one block, its size is the sum of the sizes of its blocks, every block but the
\* last has VALUE_BLOB_MAX_LENGTH bytes and the last block has at most that many.
BufferShape ==
    \A i \in DOMAIN buffers :
        (file_ret.status = "ok" /\ buffers[i].loaded) =>
            /\ Len(buffers[i].blocks) >= 1
            /\ buffers[i].size = BlockSizes(buffers[i].blocks)
            /\ \A b \in DOMAIN buffers[i].blocks :
                   /\ BlockSize(buffers[i].blocks[b]) \in 0..VALUE_BLOB_MAX_LENGTH
                   /\ b < Len(buffers[i].blocks) =>
                          BlockSize(buffers[i].blocks[b]) = VALUE_BLOB_MAX_LENGTH

\* A write behind the end of the file has made a buffer of several blocks whose last
\* block is not full.
WroteBehindTheEnd ==
    /\ file_ret.op = "Write"
    /\ file_ret.status = "ok"
    /\ buffers[1].loaded
    /\ Len(buffers[1].blocks) >= 3
    /\ BlockSize(buffers[1].blocks[Len(buffers[1].blocks)]) < VALUE_BLOB_MAX_LENGTH
    /\ \E i \in DOMAIN file_content : file_content[i] = 0

\* What a read returns of a file with this content: the bytes from the position to
\* the end of its block, at most count of them.
ExpectedRead(content, position, count) ==
    SubSeq(content, position + 1,
           Min(Len(content),
               Min(position + count,
                   (position \div VALUE_BLOB_MAX_LENGTH + 1) * VALUE_BLOB_MAX_LENGTH)))

\* C8: whatever was written, the test never fails, the three buffers report the
\* size of the file, and a read at any position returns from each of them the
\* bytes written there, zero where nothing was written.
FlushPolicyUnobservable ==
    /\ file_ret.status = "ok"
    /\ file_ret.compared = file_content
    /\ \A i \in DOMAIN buffers :
           /\ BufferSize(buffers[i]) = Len(file_content)
           /\ \A position \in 0..Len(file_content) :
              \A count \in 1..(VALUE_BLOB_MAX_LENGTH + 1) :
                  LET read == BufferRead(buffers[i], position, count, file_storage)
                  IN /\ read.status = "ok"
                     /\ read.bytes = ExpectedRead(file_content, position, count)

\* Three writes left a gap of zeroes in a file of several blocks, and the buffer
\* that is never stored explicitly still holds a block in memory.
WroteWithGap ==
    /\ operations = MaxOperations
    /\ file_ret.op = "Write"
    /\ Len(file_content) > 2 * VALUE_BLOB_MAX_LENGTH
    /\ \E i \in DOMAIN file_content : file_content[i] = 0
    /\ \E b \in DOMAIN buffers[1].blocks : buffers[1].blocks[b].kind = "UnknownDigest"
    /\ buffers[1] # buffers[2]

\* The blocks of a file with this content.
ContentBlocks(content) ==
    [b \in 1..((Len(content) + VALUE_BLOB_MAX_LENGTH - 1) \div VALUE_BLOB_MAX_LENGTH) |->
        SubSeq(content, (b - 1) * VALUE_BLOB_MAX_LENGTH + 1,
               Min(Len(content), b * VALUE_BLOB_MAX_LENGTH))]

\* The digest of a file with this content: that of its block when it has at most
\* one, else that of the segmented root over the digests of its blocks in order.
FileDigest(content) ==
    IF Len(content) <= VALUE_BLOB_MAX_LENGTH THEN BlobDigestHash(content)
    ELSE calculate_digest(Tree(postcard_to_allocvec(Len(content)),
                               [b \in DOMAIN ContentBlocks(content) |->
                                   BlobDigestHash(ContentBlocks(content)[b])]))

\* C9: a buffer whose digest is up to date reports the digest and the size of its
\* content, whatever the writes, stores and reloads that led to the content; after
\* store_all the digest is up to date.
DigestDependsOnContentOnly ==
    /\ \A i \in DOMAIN buffers :
           last_known_digest(buffers[i])[1].is_digest_up_to_date =>
               last_known_digest(buffers[i])
                   = <<DigestStatus(FileDigest(file_content), TRUE), Len(file_content)>>
    /\ file_ret.op # "init" => last_known_digest(buffers[2])[1].is_digest_up_to_date
    /\ file_ret.op = "SaveToStorage" =>
           \A i \in DOMAIN buffers : last_known_digest(buffers[i])[1].is_digest_up_to_date

\* All three buffers were stored with a content of several blocks that two writes
\* made.
SavedSeveralBlocks ==
    /\ file_ret.op = "SaveToStorage"
    /\ file_ret.status = "ok"
    /\ operations = MaxOperations
    /\ Len(file_content) > VALUE_BLOB_MAX_LENGTH
    /\ Len(file_content) % VALUE_BLOB_MAX_LENGTH # 0


(***************************************************************************)
(* Properties of the segmented blob.                                       *)
(***************************************************************************)
\* C10: loading what save_segmented_blob saved returns the segments that were
\* saved, in their order and with their duplicates, however many layers of index
\* trees the save built, and returns total_size when there is more than one
\* segment.
SegmentedBlobRoundTrip ==
    segmented_ret.op = "load" =>
        /\ segmented_ret.status = "ok"
        /\ segmented_ret.loaded_segments = segments
        /\ Len(segments) > 1 => segmented_ret.loaded_size = segmented_ret.total_size

\* A blob with a segment twice, under two layers of index trees below the root,
\* has been loaded.
LoadedTwoIndirections ==
    /\ segmented_ret.op = "load"
    /\ Len(segments) > segmented_ret.max_children_per_tree * segmented_ret.max_children_per_tree
    /\ \E i, j \in 1..Len(segments) : i < j /\ segments[i] = segments[j]
    /\ \E i, j \in 1..Len(segments) : segments[i] # segments[j]

(***************************************************************************)
(* Properties of the transactions, the roots and the garbage collection of *)
(* SQLiteStorage.                                                          *)
(***************************************************************************)
\* The writes batched in the open transaction.
BatchedWrites == IF transaction = None THEN 0 ELSE transaction

\* The digests of the trees that the step inserted.
InsertedDigests ==
    {row.digest : row \in tree_table'} \ {row.digest : row \in tree_table}

\* The writes of a step that wrote: a new tree with its children, or a root.
WritesThatHappened ==
    IF InsertedDigests # {}
    THEN 1 + Len(TreeUniverse[CHOOSE d \in InsertedDigests : TRUE].children)
    ELSE IF ret'.op = "update_root" /\ ret'.status = "ok" THEN 1
    ELSE 0

\* C11: commit_changes returns the writes batched since the previous commit and
\* resets the count; a store_tree that inserted a tree adds one and the number of
\* its children, an update_root that wrote a root adds one, and every other call,
\* one that failed with TreeMissing among them, adds nothing.
CommitCountsWritesThatHappened ==
    [][engine = "sql" =>
          IF ret'.op = "commit_changes"
          THEN ret'.detail = BatchedWrites /\ BatchedWrites' = 0
          ELSE BatchedWrites' = BatchedWrites + WritesThatHappened]_vars

\* C12: commit_changes is a barrier.  When it returns no transaction is open and the
\* database file has the tables as they were when it was called: every tree and root
\* written before and not removed by a garbage collection.  A write after it opens a
\* new transaction, and what is written in an open transaction stays out of the file
\* until the next commit_changes.
CommitIsBarrier ==
    [][engine = "sql" =>
          /\ ret'.op = "commit_changes" => transaction' = None /\ durable' = Tables
          /\ (transaction = None /\ InsertedDigests # {}) =>
                 transaction' # None /\ durable' = Tables
          /\ (transaction = None /\ root_table' # root_table) =>
                 transaction' # None /\ durable' = Tables
          /\ (transaction # None /\ transaction' # None) => durable' = durable]_vars

\* A tree was written after a commit_changes that made other trees durable.
WroteAfterBarrier ==
    /\ engine = "sql"
    /\ transaction # None
    /\ durable.tree # {}
    /\ \E row \in tree_table : row \notin durable.tree

\* C13: the roots are a map from names.  load_root(name) returns None as long as no
\* update_root(name, _) succeeded, and then a reference to the target of the latest
\* one that did; an update_root changes the root of its name only, two names can have
\* one target, and no other call, commit_changes among them, changes a root.
RootsAreAMap ==
    [][engine = "sql" =>
          /\ ret'.op = "load_root" =>
                 /\ ret'.status = (IF root_table[ret'.detail.name] = None THEN "None" ELSE "ok")
                 /\ ret'.detail.digest = root_table[ret'.detail.name]
          /\ IF ret'.op = "update_root" /\ ret'.status = "ok"
             THEN root_table' = [root_table EXCEPT ![ret'.detail.name] = ret'.detail.target]
             ELSE root_table' = root_table]_vars

\* Two names have one target, and load_root returned it after a commit_changes.
LoadedSharedRootAfterCommit ==
    /\ ret.op = "load_root"
    /\ ret.status = "ok"
    /\ ret.detail.name = "b"
    /\ root_table["a"] = root_table["b"]
    /\ transaction = None

\* C14: update_root with a target that is not in the tree table fails with
\* TreeMissing(TreeNotFound(target)) and changes no root, and it fails in no other
\* case; the target of every root is a stored tree.
RootTargetsAreStored ==
    [][engine = "sql" =>
          /\ ret'.op = "update_root" =>
                 IF \E row \in tree_table : row.digest = ret'.detail.target
                 THEN ret'.status = "ok"
                 ELSE /\ ret'.status = "TreeMissing"
                      /\ ret'.detail.missing = ret'.detail.target
                      /\ root_table' = root_table
          /\ \A name \in RootNames :
                 root_table'[name] # None =>
                     \E row \in tree_table' : row.digest = root_table'[name]]_vars

\* An update_root failed for a name that has a root, whose target nobody holds.
UpdateRootFailedBesideRoot ==
    /\ ret.op = "update_root"
    /\ ret.status = "TreeMissing"
    /\ root_table[ret.detail.name] # None
    /\ held = EmptyMap

\* The digests with an additional root whose token is alive.
LiveAdditionalRoots ==
    {d \in DOMAIN additional_roots : LiveToken(additional_roots[d].token, {})}

\* The rows of the tree table that the step deleted.
DeletedRows == tree_table \ tree_table'

IsRootTarget(row) == \E name \in RootNames : root_table[name] = row.digest

\* C20: one collect_some_garbage of SQLiteStorage deletes every tree that no reference
\* row, no root and no live additional root targets, deletes no tree that a live
\* additional root, a root or a reference row of a tree that stays targets, removes
\* the reference rows of the deleted trees and no other, and returns the number of
\* tree rows it deleted.
GarbageCollectionDeletesUnreferenced ==
    [][(engine = "sql" /\ ret'.op = "collect_some_garbage") =>
          /\ tree_table' \subseteq tree_table
          /\ \A row \in tree_table :
                 (/\ ~\E ref \in reference_table : ref.target = row.digest
                  /\ ~IsRootTarget(row)
                  /\ row.digest \notin LiveAdditionalRoots) => row \notin tree_table'
          /\ \A row \in tree_table :
                 (\/ row.digest \in LiveAdditionalRoots
                  \/ IsRootTarget(row)
                  \/ \E ref \in reference_table :
                         /\ ref.target = row.digest
                         /\ \E origin \in tree_table' : origin.id = ref.origin)
                     => row \in tree_table'
          /\ reference_table' =
                 {ref \in reference_table : ~\E row \in DeletedRows : row.id = ref.origin}
          /\ ret'.detail = Cardinality(DeletedRows)]_vars

\* A collection deleted a parent and kept a child of it that nothing else targets.
CollectedParentBeforeChild ==
    /\ ret.op = "collect_some_garbage"
    /\ ret.detail >= 1
    /\ held = EmptyMap
    /\ \A name \in RootNames : root_table[name] = None
    /\ \E d \in gc_removed : \E row \in tree_table :
           row.digest \in Range(TreeUniverse[d].children)

(***************************************************************************)
(* Properties of the LoadCache.                                            *)
(***************************************************************************)
\* The load out succeeded and returned a tree with the content.
LoadedContent(out, content) ==
    /\ out.status = "ok"
    /\ TreeContent(out.tree) = content

\* C15: when the LoadCache evicts the entry of a digest, a load_tree of the digest
\* through the cache still succeeds and returns the tree that the entry had,
\* whoever else holds a reference to it.
EvictionIsNotDataLoss ==
    ret.op = "cache_load_tree" =>
        \A evicted \in ret.detail.evicted :
            LoadedContent(LoadCacheLoadTree(entries, evicted.key), evicted.content)


\* C16: every entry of the LoadCache holds, under its key d, a tree with the digest d
\* and a StrongReference to d; a successful load_tree(d) through the cache returns a
\* hashed tree with the digest d and a StrongReference to d; a load_tree that fails,
\* as it does with TreeNotFound(d) when hash() of what the backing store loaded is
\* None, leaves the cache as it was; the cache never holds more than max_entries
\* entries.
CacheHoldsVerifiedTrees ==
    /\ Len(entries) <= max_entries
    /\ \A i \in DOMAIN entries :
           /\ HashedTreeFrom(entries[i].tree.blob, RefDigests(entries[i].tree.children))
                  = entries[i].key
           /\ entries[i].reference.digest = entries[i].key
           /\ entries[i].reference.impl # None
    /\ ret.op = "cache_load_tree" =>
           IF ret.status = "ok"
           THEN /\ ret.detail.hashed = ret.detail.digest
                /\ HashedTreeFrom(ret.detail.content.blob, ret.detail.content.children)
                       = ret.detail.digest
                /\ ret.detail.reference.digest = ret.detail.digest
                /\ ret.detail.reference.impl # None
           ELSE ret.detail.unchanged

\* The cache holds a tree, and a load_tree of another digest, whose row the database
\* has with a blob of another digest, has just failed with TreeNotFound.
CacheRefusedDamagedTree ==
    /\ ret.op = "cache_load_tree"
    /\ ret.status = "TreeNotFound"
    /\ \E row \in tree_table : row.digest = ret.detail.digest /\ row.tree_blob = DamagedBlob
    /\ entries # <<>>
    /\ ret.detail.digest \notin CacheKeys(entries)

(***************************************************************************)
(* Properties of concurrent calls.                                         *)
(***************************************************************************)
\* Every child of a tree of the map is in the map, as after every sequence of
\* store_tree, load_tree, collect_some_garbage and clear calls that run one after
\* the other.
MapClosed(m) ==
    \A d \in DOMAIN m : \A i \in DOMAIN m[d].tree.children :
        m[d].tree.children[i].digest \in DOMAIN m

\* C17: concurrent store_tree, load_tree, collect_some_garbage and clear calls on one
\* InMemoryTreeStorage leave a map that calls running one after the other can leave,
\* one in which every child of a stored tree is stored; in particular store_tree
\* inserts no parent whose child is absent from the map at the insertion.
ConcurrentCallsLinearizable ==
    /\ MapClosed(reference_to_tree)
    /\ ret.op = "store_tree" => ret.detail.absent = {}

\* A task that waits for the lock of entries gets it: no task holds the lock, or the
\* task that holds it is another one that releases it without waiting for anything.
LockIsReleased(task) ==
    \/ entries_lock = None
    \/ /\ entries_lock # task
       /\ tasks[entries_lock].pc \in {"lookup", "set"}

\* C18: a load_tree of the LoadCache does not hold the lock of entries while the
\* backing store loads; of concurrent load_tree calls on one cache, for the same or
\* for different digests, none waits for a lock that is never released, and each that
\* succeeds returns the tree of its digest.
CacheLockNotHeldAcrossLoad ==
    /\ \A task \in DOMAIN tasks :
           /\ tasks[task].pc = "load" => entries_lock # task
           /\ tasks[task].pc \in {"lock_lookup", "lock_set"} => LockIsReleased(task)
    /\ (DOMAIN tasks # {} /\ ret.op = "cache_load_tree" /\ ret.status = "ok") =>
           /\ ret.detail.hashed = ret.detail.digest
           /\ ret.detail.content = [blob |-> TreeUniverse[ret.detail.digest].blob,
                                    children |-> TreeUniverse[ret.detail.digest].children]

\* One task waits for the lock to store the tree it loaded, while the other task
\* holds the lock for its lookup of the same digest.
WaitsForLookupOfSameDigest ==
    \E task, other \in DOMAIN tasks :
        /\ tasks[task].pc = "lock_set"
        /\ tasks[other].pc = "lookup"
        /\ entries_lock = other
        /\ tasks[task].digest = tasks[other].digest

\* C19: a write that fails at one of its storage accesses leaves the buffer
\* self-consistent: its size is the sum of the sizes of its blocks, and its digest
\* is not up to date when the content changed.
FailedWriteLeavesBufferConsistent ==
    (file_ret.op = "write" /\ file_ret.status # "ok") => SelfConsistent(buffers[1])

(***************************************************************************)
(* Properties of garbage collection in both engines.                       *)
(***************************************************************************)
\* No caller and no cache holds a StrongReference, and no root exists.
NothingHeld ==
    /\ held = EmptyMap
    /\ entries = <<>>
    /\ \A name \in RootNames : root_table[name] = None

\* C21: in a store of N trees where no StrongReference is held and no root exists,
\* every collect_some_garbage before the store is empty collects at least one tree
\* and returns the number of trees that left the store, in both engines; so the
\* store is empty after at most N calls whose trees_collected sum to N.
GarbageCollectionConverges ==
    [][(ret'.op = "collect_some_garbage" /\ NothingHeld /\ TreeCount > 0) =>
          /\ ret'.detail >= 1
          /\ TreeCount' = TreeCount - ret'.detail]_vars

\* A collection of the in-memory engine has left trees behind that the next one
\* collects: nothing is held, and the store is not empty.
CollectedSomeOfTheTrees ==
    /\ engine = "mem"
    /\ ret.op = "collect_some_garbage"
    /\ ret.detail >= 1
    /\ NothingHeld
    /\ TreeCount >= 2

\* The automatic collection is due for len additional roots.
CollectionDue(len, last) ==
    /\ len >= minimum_additional_roots_len_for_gc
    /\ len > last * 2

\* The step shows that a garbage collection ran in it.
CollectionRan ==
    \/ gc_removed' # {}
    \/ ~(DOMAIN additional_roots \subseteq DOMAIN additional_roots')
    \/ last_gc_additional_roots_len' # last_gc_additional_roots_len

\* C22: the automatic collection runs in a call of SQLiteStorage that acquires an
\* additional root exactly when, after the acquisition, the number of additional
\* roots is at least the minimum and more than twice last_gc_additional_roots_len:
\* no call leaves a collection due, and a collection ran only in a call in which it
\* was due.  After a collection no additional root has an expired token, and
\* last_gc_additional_roots_len is the number of additional roots that the collection
\* left, to which the call adds the ones it acquires afterwards.
AutomaticCollectionAtThreshold ==
    [][engine = "sql" =>
          /\ ~CollectionDue(Cardinality(DOMAIN additional_roots'),
                            last_gc_additional_roots_len')
          /\ (CollectionRan /\ ret'.op # "collect_some_garbage") =>
                 CollectionDue(Cardinality(DOMAIN additional_roots
                                           \cup DOMAIN additional_roots'),
                               last_gc_additional_roots_len)
          /\ (CollectionRan \/ ret'.op = "collect_some_garbage") =>
                 /\ \A d \in DOMAIN additional_roots' :
                        Alive(additional_roots'[d].token, reference_to_tree', held',
                              entries', {})
                 /\ last_gc_additional_roots_len' <= Cardinality(DOMAIN additional_roots')
          /\ ret'.op = "collect_some_garbage" =>
                 last_gc_additional_roots_len' = Cardinality(DOMAIN additional_roots')]_vars

\* An automatic collection has just deleted a tree in a call that acquired an
\* additional root, and left fewer additional roots than twice the number after
\* the collection before.
AutomaticCollectionDeleted ==
    /\ engine = "sql"
    /\ ret.op # "collect_some_garbage"
    /\ gc_removed # {}
    /\ last_gc_additional_roots_len >= 1
    /\ Cardinality(DOMAIN additional_roots) = 2

HasTreeRow(d) == \E row \in tree_table : row.digest = d

\* C23: when store_tree, load_tree or load_root of SQLiteStorage returns a reference,
\* the tree table has a row for its digest and, after load_tree, a row for the digest
\* of every child reference, also when the automatic collection ran in the call.
HandedOutTreesExist ==
    (engine = "sql" /\ ret.status = "ok") =>
        /\ ret.op \in {"store_tree", "load_tree"} =>
               /\ HasTreeRow(ret.detail.digest)
               /\ \A i \in DOMAIN ret.detail.children : HasTreeRow(ret.detail.children[i])
        /\ ret.op = "load_root" => HasTreeRow(ret.detail.digest)

\* load_tree handed out a tree with a child in a call in which the automatic
\* collection deleted a tree.
LoadedChildrenWhileCollecting ==
    /\ engine = "sql" /\ ret.op = "load_tree" /\ ret.status = "ok"
    /\ ret.detail.children # <<>>
    /\ gc_removed # {}

\* store_tree handed out a reference in a call in which the automatic collection
\* deleted a tree.
StoredWhileCollecting ==
    /\ engine = "sql" /\ ret.op = "store_tree" /\ ret.status = "ok"
    /\ gc_removed # {}

\* The tokens of digest d that some StrongReference holds.
LiveTokens(d) ==
    {t \in TokenPool(d) : Alive(t, reference_to_tree, held, entries, {})}

\* The tokens that the engine records weakly for digest d: at most one.
RecordedTokens(d) ==
    IF engine = "mem"
    THEN IF d \in DOMAIN reference_to_tree
         THEN {reference_to_tree[d].strong_reference_impl} ELSE {}
    ELSE IF d \in DOMAIN additional_roots
         THEN {additional_roots[d].token} ELSE {}

\* C24: in each engine the StrongReferences to a digest that are alive all hold the
\* one token that the engine records weakly for the digest, so that a token is
\* created for a digest only when no StrongReference holds the recorded one, and the
\* weak handle of the engine can be upgraded exactly when a StrongReference to the
\* digest is alive.
OneTokenPerDigest ==
    \A d \in Digests : LiveTokens(d) \subseteq RecordedTokens(d)

\* C25: the unreachable! of require_additional_root_entry is not reached: in every
\* state of SQLiteStorage every additional root whose token is live records the row
\* id that the tree table has for its digest, also after the tree of a digest was
\* deleted and inserted again under a new or a reused row id, and no call ends in
\* the panic.
LiveAdditionalRootsHaveTheirRow ==
    engine = "sql" =>
        /\ ret.status # "panic"
        /\ \A d \in DOMAIN additional_roots :
               LiveToken(additional_roots[d].token, {}) =>
                   \E row \in tree_table :
                       row.digest = d /\ row.id = additional_roots[d].tree_id

\* store_tree found the additional root, with a live token, of a leaf that was
\* inserted again under a new row id: the other leaf has row 2, so that this leaf had
\* row 1 before it got row 3.
FoundLiveRootOfReinsertedTree ==
    /\ engine = "sql" /\ ret.op = "store_tree" /\ ret.status = "ok"
    /\ ret.detail.digest \in DOMAIN additional_roots
    /\ additional_roots[ret.detail.digest].tree_id = 3
    /\ TreeUniverse[ret.detail.digest].children = <<>>
    /\ \E row \in tree_table : /\ row.id = 2
                                /\ row.digest # ret.detail.digest
                                /\ TreeUniverse[row.digest].children = <<>>
    /\ \E r \in DOMAIN held : r.digest = ret.detail.digest /\ held[r] = 2

\* The map has an entry for digest d whose token some StrongReference holds.
HasLiveEntry(d) ==
    /\ d \in DOMAIN reference_to_tree
    /\ Alive(reference_to_tree[d].strong_reference_impl, reference_to_tree, held,
             entries, {})

\* C26: load_tree of InMemoryTreeStorage succeeds exactly when the map has an entry
\* for the digest whose token a StrongReference still holds, one of the application
\* or one that a stored parent keeps for its child.  For an entry whose token has
\* expired it returns TreeNotFound and removes the entry, so that
\* approximate_tree_count decreases by one; otherwise it leaves the map as it was.
LoadTreeNeedsLiveToken ==
    [][(engine = "mem" /\ ret'.op = "load_tree") =>
          LET d == ret'.detail.digest
          IN /\ (ret'.status = "ok") = HasLiveEntry(d)
             /\ ret'.status \in {"ok", "TreeNotFound"}
             /\ IF d \in DOMAIN reference_to_tree /\ ~HasLiveEntry(d)
                THEN /\ reference_to_tree' = MapRemove(reference_to_tree, d)
                     /\ ret'.detail.trees_removed = 1
                ELSE /\ reference_to_tree' = reference_to_tree
                     /\ ret'.detail.trees_removed = 0]_vars

\* load_tree removed the entry of a parent whose token had expired, and left the
\* entry of its child.
LoadTreeRemovedExpiredEntry ==
    /\ engine = "mem" /\ ret.op = "load_tree" /\ ret.status = "TreeNotFound"
    /\ ret.detail.trees_removed = 1
    /\ TreeUniverse[ret.detail.digest].children # <<>>
    /\ reference_to_tree # EmptyMap

\* The tree table has a row for digest d and for each of its children, and the
\* reference table has for d the rows that store_tree wrote.
StoredUndamaged(d) ==
    /\ \A c \in {d} \cup Range(TreeUniverse[d].children) : HasTreeRow(c)
    /\ \A row \in tree_table :
           row.digest = d =>
               {ref \in reference_table : ref.origin = row.id} = StoredReferenceRows(row)

\* C27: load_tree of SQLiteStorage returns the children in ascending
\* zero_based_index, the order in which store_tree got them, and no tree of a child
\* list with a gap or with too many children: when the indices of the rows it reads
\* are not 0..n-1 it fails with Inconsistency, when they are and n is above
\* TREE_MAX_CHILDREN it fails with Inconsistency (too many children), and otherwise,
\* also with exactly TREE_MAX_CHILDREN children, it returns the targets of the rows.
LoadTreeChecksChildRows ==
    (engine = "sql" /\ ret.op = "load_tree" /\ ret.status # "TreeNotFound"
                    /\ ret.detail.message # "decompress") =>
        LET indices == ret.detail.indices
        IN /\ IF \E i \in DOMAIN indices : indices[i] # i - 1
              THEN ret.status = "Inconsistency" /\ ret.detail.message = "index"
              ELSE IF Len(indices) > TREE_MAX_CHILDREN
                   THEN /\ ret.status = "Inconsistency"
                        /\ ret.detail.message = "too many children"
                   ELSE /\ ret.status = "ok"
                        /\ ret.detail.children = ret.detail.targets
           /\ \A i, j \in DOMAIN indices : i < j => indices[i] < indices[j]
           /\ StoredUndamaged(ret.detail.digest) =>
                  /\ ret.status = "ok"
                  /\ ret.detail.children = TreeUniverse[ret.detail.digest].children

\* load_tree refused a tree for which it read one row more than TREE_MAX_CHILDREN.
LoadRefusedTooManyChildren ==
    /\ engine = "sql" /\ ret.op = "load_tree" /\ ret.status = "Inconsistency"
    /\ ret.detail.message = "too many children"
    /\ Len(ret.detail.indices) = TREE_MAX_CHILDREN + 1

\* load_tree returned a tree with exactly TREE_MAX_CHILDREN children.
LoadedMostChildren ==
    /\ engine = "sql" /\ ret.op = "load_tree" /\ ret.status = "ok"
    /\ Len(ret.detail.children) = TREE_MAX_CHILDREN

\* load_tree refused a tree whose rows have a gap.
LoadRefusedGap ==
    /\ engine = "sql" /\ ret.op = "load_tree" /\ ret.status = "Inconsistency"
    /\ ret.detail.message = "index"
    /\ ret.detail.indices = <<0, 2>>

\* The depths below the root at which the leaf segments of the trees under the
\* references lie, from left to right.
RECURSIVE LeafDepths(_, _, _)
LeafDepths(references, storage, depth) ==
    IF references = <<>> THEN <<>>
    ELSE LET value == load_value(storage, Head(references)).hashed.value
         IN (IF value.references = <<>> THEN <<depth>>
             ELSE LeafDepths(value.references, storage, depth + 1))
            \o LeafDepths(Tail(references), storage, depth)

\* The numbers of children of the index trees under the references.
RECURSIVE FanOuts(_, _)
FanOuts(references, storage) ==
    IF references = <<>> THEN {}
    ELSE LET value == load_value(storage, Head(references)).hashed.value
         IN (IF value.references = <<>> THEN {}
             ELSE {Len(value.references)} \cup FanOuts(value.references, storage))
            \cup FanOuts(Tail(references), storage)

\* A layer of n items, or a layer above it, ends with a group of one item.
RECURSIVE EndsWithSingleItem(_, _)
EndsWithSingleItem(n, max_children_per_tree) ==
    /\ n > max_children_per_tree
    /\ \/ n % max_children_per_tree = 1
       \/ EndsWithSingleItem((n + max_children_per_tree - 1) \div max_children_per_tree,
                             max_children_per_tree)

\* save_segmented_blob has saved more segments than one tree takes.
SavedSeveralLayers ==
    /\ segmented_ret.op = "save" /\ segmented_ret.status = "ok"
    /\ Len(segments) > segmented_ret.max_children_per_tree

SavedLeafDepths == LeafDepths(<<segmented_ret.reference>>, segment_storage, 0)

\* C28 as stated: for more segments than max_children_per_tree, every index tree that
\* save_segmented_blob builds has at most max_children_per_tree children, and all
\* leaf segments lie at the same depth.
SegmentedBlobIsBalanced ==
    SavedSeveralLayers =>
        /\ \A n \in FanOuts(<<segmented_ret.reference>>, segment_storage) :
               n <= segmented_ret.max_children_per_tree
        /\ \A i, j \in DOMAIN SavedLeafDepths : SavedLeafDepths[i] = SavedLeafDepths[j]

\* C28: for more segments than max_children_per_tree, every index tree that
\* save_segmented_blob builds has at most max_children_per_tree children; all leaf
\* segments lie at the same depth unless a layer ends with a group of a single item,
\* which goes into the layer above as it is: then the segments below it lie nearer
\* to the root than the ones before them, and no segment lies deeper than the first.
SegmentedBlobFanOut ==
    SavedSeveralLayers =>
        /\ \A n \in FanOuts(<<segmented_ret.reference>>, segment_storage) :
               n <= segmented_ret.max_children_per_tree
        /\ \A i, j \in DOMAIN SavedLeafDepths :
               i < j => SavedLeafDepths[i] >= SavedLeafDepths[j]
        /\ Len(SavedLeafDepths) = Len(segments)
        /\ (\E i, j \in DOMAIN SavedLeafDepths : SavedLeafDepths[i] # SavedLeafDepths[j])
               = EndsWithSingleItem(Len(segments), segmented_ret.max_children_per_tree)

\* Five segments were saved with two children per tree: the last segment lies one
\* level below the root, the first four lie three levels below it.
SavedSingleItemGroup ==
    /\ SavedSeveralLayers
    /\ segmented_ret.max_children_per_tree = 2
    /\ SavedLeafDepths = <<3, 3, 3, 3, 1>>

\* The entries of dirty_blocks whose block is Loaded(UnknownDigest), in their order.
UnknownDigestEntries(loaded) ==
    LET IsUnknown(index) == loaded.blocks[index + 1].kind = "UnknownDigest"
    IN SelectSeq(loaded.dirty_blocks, IsUnknown)

\* C29: after store_cheap_blocks returned successfully, dirty_blocks holds the
\* entries it held before whose block is Loaded(UnknownDigest), in their order; the
\* block of every other entry is stored and NotLoaded; no block with an unknown
\* digest was hashed, stored or changed.
StoreCheapBlocksPostcondition ==
    [][(file_ret'.op = "store_cheap_blocks" /\ file_ret'.status = "ok"
                                            /\ operations' = operations + 1) =>
          LET before == buffers[1]
              after == buffers'[1]
          IN /\ after.dirty_blocks = UnknownDigestEntries(before)
             /\ \A k \in DOMAIN before.dirty_blocks :
                    LET i == before.dirty_blocks[k] + 1
                    IN before.blocks[i].kind # "UnknownDigest" =>
                           /\ after.blocks[i].kind = "NotLoaded"
                           /\ \E hashed \in file_storage' :
                                  hashed.digest = after.blocks[i].digest
             /\ \A i \in DOMAIN before.blocks :
                    before.blocks[i].kind = "UnknownDigest" =>
                        after.blocks[i] = before.blocks[i]
             /\ file_storage' \ file_storage \subseteq
                    {before.blocks[i].hashed_value :
                        i \in {j \in DOMAIN before.blocks :
                                  before.blocks[j].kind = "KnownDigest"}}]_vars

\* The block is NotLoaded with the digest and the size of what block held.
StoredAs(stored, block) ==
    /\ stored.kind = "NotLoaded"
    /\ stored.size = BlockSize(block)
    /\ stored.digest = IF block.kind = "NotLoaded" THEN block.digest
                       ELSE BlobDigestHash(BlockContent(block))

\* C30: after a successful store_all on a loaded buffer every block is NotLoaded with
\* the digest it is stored under and the size it had, dirty_blocks is empty,
\* is_digest_up_to_date is true and last_known_digest_file_size is the size; the
\* result is NoChanges exactly when the digest and the flag are what they were
\* before, and SomeChanges otherwise.  On a buffer that is not loaded store_all
\* returns NoChanges and changes nothing.
StoreAllPostcondition ==
    [][(file_ret'.op = "store_all" /\ file_ret'.status = "ok"
                                   /\ operations' = operations + 1) =>
          LET before == buffers[1]
              after == buffers'[1]
          IN IF before.loaded
             THEN /\ after.loaded
                  /\ Len(after.blocks) = Len(before.blocks)
                  /\ \A i \in DOMAIN before.blocks :
                         /\ StoredAs(after.blocks[i], before.blocks[i])
                         /\ before.blocks[i].kind # "NotLoaded" =>
                                \E hashed \in file_storage' :
                                    hashed.digest = after.blocks[i].digest
                  /\ after.dirty_blocks = <<>>
                  /\ after.digest.is_digest_up_to_date
                  /\ after.size = before.size
                  /\ after.last_known_digest_file_size = after.size
                  /\ file_ret'.changes \in {"NoChanges", "SomeChanges"}
                  /\ (file_ret'.changes = "NoChanges") = (after.digest = before.digest)
             ELSE /\ after = before
                  /\ file_storage' = file_storage
                  /\ file_ret'.changes = "NoChanges"]_vars

\* store_all on a loaded buffer of several blocks returned NoChanges.
StoredAllWithoutChanges ==
    /\ file_ret.op = "store_all" /\ file_ret.status = "ok"
    /\ file_ret.changes = "NoChanges"
    /\ buffers[1].loaded
    /\ Len(buffers[1].blocks) >= 2

\* store_all on a buffer that is not loaded returned NoChanges.
StoredAllNotLoaded ==
    /\ file_ret.op = "store_all" /\ file_ret.status = "ok"
    /\ ~buffers[1].loaded

(***************************************************************************)
(* One open file that is written to, read, truncated, stored and whose     *)
(* read caches are dropped.                                                *)
(***************************************************************************)
\* The state after a read of buffers[1] returned out.
ReadReturned(out, position, count) ==
    /\ buffers' = [buffers EXCEPT ![1] = out.buffer]
    /\ operations' = operations + 1
    /\ file_ret' = [op |-> "read", status |-> out.status, compared |-> out.bytes,
                    position |-> position, count |-> count]
    /\ UNCHANGED <<file_storage, file_content>>

ReadAlone ==
    /\ CanOperate
    /\ \E position \in 0..MaxPosition : \E count \in 0..MaxDataLength :
       \E overflow_checks \in BOOLEAN :
          ReadReturned(BufferReadBuilt(buffers[1], position, count, file_storage,
                                       overflow_checks),
                       position, count)
    /\ UNCHANGED <<storage_vars, segmented_vars, task_vars, sorted_vars>>

TruncateAlone ==
    /\ CanOperate
    /\ Called("truncate",
              [status |-> "ok", buffer |-> truncate(buffers[1]), storage |-> file_storage],
              <<>>)
    /\ UNCHANGED <<storage_vars, segmented_vars, task_vars, sorted_vars>>

DropCachesAlone ==
    /\ CanOperate
    /\ Called("drop_all_read_caches",
              [status |-> "ok", buffer |-> drop_all_read_caches(buffers[1]),
               storage |-> file_storage],
              file_content)
    /\ UNCHANGED <<storage_vars, segmented_vars, task_vars, sorted_vars>>

NextBuffer ==
    \/ WriteAlone
    \/ ReadAlone
    \/ TruncateAlone
    \/ DropCachesAlone
    \/ StoreCheapBlocksAlone
    \/ StoreAlone
    \/ OpenAgain

SpecBuffer == InitFile /\ [][NextBuffer]_vars

\* C31: the digest status is never optimistic.  Whenever the buffer reports that
\* its digest is up to date, store_all on the buffer as it is computes that very
\* digest and the file size recorded with the digest is the size of the buffer;
\* every successful write and every truncate leaves the status outdated, and only
\* a successful store_all turns an outdated status into an up to date one.
IsDigestUpToDate(buffer) == last_known_digest(buffer)[1].is_digest_up_to_date

StoredAgain(buffer, out) ==
    /\ out.status = "ok"
    /\ last_known_digest(out.buffer)[1].last_known_digest =
           last_known_digest(buffer)[1].last_known_digest
    /\ last_known_digest(buffer)[2] = BufferSize(buffer)
    /\ BufferSize(buffer) = Len(file_content)

UpToDateDigestIsCurrent ==
    IsDigestUpToDate(buffers[1]) =>
        StoredAgain(buffers[1], BufferStoreAll(buffers[1], file_storage))

WritesOutdateTheDigest ==
    /\ (operations' # operations /\ file_ret'.op \in {"write", "truncate"}
            /\ file_ret'.status = "ok")
          => (buffers'[1].loaded /\ ~buffers'[1].digest.is_digest_up_to_date)
    /\ (~IsDigestUpToDate(buffers[1])
            /\ (~buffers'[1].loaded \/ buffers'[1].digest.is_digest_up_to_date))
          => (file_ret'.op = "store_all" /\ file_ret'.status = "ok")

DigestStatusNeverOptimistic == [](UpToDateDigestIsCurrent) /\ [][WritesOutdateTheDigest]_vars

\* store_all brought the digest of a file of several blocks up to date.
StoredSeveralBlocksUpToDate ==
    /\ file_ret.op = "store_all"
    /\ file_ret.status = "ok"
    /\ buffers[1].loaded
    /\ buffers[1].digest.is_digest_up_to_date
    /\ Len(buffers[1].blocks) > 1
    /\ buffers[1].digest.last_known_digest # BlobDigestHash(<<>>)

\* C32: the write-back budget.  A write stores blocks before it modifies any: when
\* it starts to modify blocks, dirty_blocks has fewer than write_buffer_in_blocks
\* entries, the write only appends entries to them, and after the write
\* dirty_blocks has fewer than write_buffer_in_blocks entries plus those that the
\* write appended.
BudgetKept(started, after) ==
    /\ Len(started) < write_buffer_in_blocks
    /\ Len(after) >= Len(started)
    /\ Take(after, Len(started)) = started
    /\ Len(after) < write_buffer_in_blocks + (Len(after) - Len(started))

StartedToModify(out) ==
    StoreBeforeWriting(out.buffer, file_storage).loaded.dirty_blocks

WriteBackBudget ==
    [][(operations' # operations /\ file_ret'.op = "write" /\ file_ret'.status = "ok")
          => BudgetKept(StartedToModify(require_loaded(buffers[1], file_storage)),
                        buffers'[1].dirty_blocks)]_vars

\* The third of three writes stored blocks before it appended to dirty_blocks.
WroteOverBudget ==
    /\ operations = MaxOperations
    /\ file_ret.op = "write"
    /\ file_ret.status = "ok"
    /\ {11, 21, 31} \subseteq Range(file_content)
    /\ file_storage # {}
    /\ buffers[1].dirty_blocks # <<>>

\* C33: truncate yields, from a buffer that was never loaded, is loaded without
\* dirty blocks or is loaded with dirty blocks, a buffer of size 0 with exactly one
\* empty block that is marked dirty, whose digest status is outdated and whose
\* last known digest and last known digest file size are what the buffer reported
\* before the call; store_all on the truncated buffer reports the digest of the
\* empty tree and the file size 0.
Truncated(before, after) ==
    /\ after.loaded
    /\ after.size = 0
    /\ after.blocks = <<UnknownDigest(<<>>)>>
    /\ after.dirty_blocks = <<0>>
    /\ ~after.digest.is_digest_up_to_date
    /\ after.digest.last_known_digest = last_known_digest(before)[1].last_known_digest
    /\ after.last_known_digest_file_size = last_known_digest(before)[2]

StoredEmpty(out) ==
    /\ out.status = "ok"
    /\ last_known_digest(out.buffer) = <<DigestStatus(BlobDigestHash(<<>>), TRUE), 0>>
    /\ BufferSize(out.buffer) = 0

StoreAllAfterTruncate ==
    file_ret.op = "truncate" => StoredEmpty(BufferStoreAll(buffers[1], file_storage))

TruncatePostcondition ==
    /\ [](StoreAllAfterTruncate)
    /\ [][(operations' # operations /\ file_ret'.op = "truncate")
             => Truncated(buffers[1], buffers'[1])]_vars

\* A file of several blocks that had been stored was truncated.
TruncatedStoredFile ==
    /\ file_ret.op = "truncate"
    /\ buffers[1].last_known_digest_file_size > VALUE_BLOB_MAX_LENGTH
    /\ buffers[1].digest.last_known_digest # BlobDigestHash(<<>>)
    /\ file_content = <<>>

(***************************************************************************)
(* A file that was stored and is opened again: it is read, written to and  *)
(* its read caches are dropped.                                            *)
(***************************************************************************)
MaxFileLength == 9

FileLengths == {0, VALUE_BLOB_MAX_LENGTH + 1, MaxFileLength}

FileBytes(length) == [i \in 1..length |-> i]

\* The file was written in one write and stored.
StoredFile(length) ==
    BufferStoreAll(BufferWrite(from_data(<<>>, BlobDigestHash(<<>>), 0), 0,
                               from_bytes(0, FileBytes(length)), {}).buffer,
                   BufferWrite(from_data(<<>>, BlobDigestHash(<<>>), 0), 0,
                               from_bytes(0, FileBytes(length)), {}).storage)

Opened(stored, content) ==
    /\ buffers = [i \in 1..3 |->
                     IF i = 1
                     THEN from_storage(last_known_digest(stored.buffer)[1].last_known_digest,
                                       last_known_digest(stored.buffer)[2])
                     ELSE from_data(<<>>, BlobDigestHash(<<>>), 0)]
    /\ file_storage = stored.storage
    /\ file_content = content
    /\ operations = 0
    /\ file_ret = [op |-> "init", status |-> "ok", compared |-> <<>>]

InitRead ==
    /\ StorageIdle
    /\ SegmentedInit
    /\ NoTasks /\ SortedTreeInit
    /\ \E length \in FileLengths : Opened(StoredFile(length), FileBytes(length))

NextRead ==
    \/ ReadAlone
    \/ WriteAlone
    \/ DropCachesAlone

SpecRead == InitRead /\ [][NextRead]_vars

\* C34: a read that returns, returns bytes of the one block that holds the
\* position, from the position on and at most count of them, and nothing when the
\* file has no such block; it changes neither the size, dirty_blocks, the digest
\* status nor the bytes of a block: a block is what it was or was NotLoaded and is
\* Loaded with the digest it had.
BytesOfBlock(content, block_index) ==
    SubSeq(content, block_index * VALUE_BLOB_MAX_LENGTH + 1,
           Min(Len(content), (block_index + 1) * VALUE_BLOB_MAX_LENGTH))

ReadFromOneBlock(before, position, count, bytes) ==
    IF position \div VALUE_BLOB_MAX_LENGTH >= Len(before.blocks) THEN bytes = <<>>
    ELSE /\ bytes = Take(Drop(BytesOfBlock(file_content, position \div VALUE_BLOB_MAX_LENGTH),
                              position % VALUE_BLOB_MAX_LENGTH),
                         count)
         /\ Len(bytes) <= count

BlockKept(before, after) ==
    \/ after = before
    \/ /\ before.kind = "NotLoaded"
       /\ after.kind = "KnownDigest"
       /\ after.hashed_value.digest = before.digest
       /\ Len(after.hashed_value.value.blob) = before.size

ReadFrame(before, after) ==
    /\ after.loaded
    /\ after.size = before.size
    /\ after.dirty_blocks = before.dirty_blocks
    /\ after.digest = before.digest
    /\ after.last_known_digest_file_size = before.last_known_digest_file_size
    /\ Len(after.blocks) = Len(before.blocks)
    /\ \A i \in DOMAIN before.blocks : BlockKept(before.blocks[i], after.blocks[i])

ReadReturnsOneBlock(out) ==
    /\ out.status = "ok"
    /\ ReadFromOneBlock(out.buffer, file_ret'.position, file_ret'.count, file_ret'.compared)
    /\ ReadFrame(out.buffer, buffers'[1])
    /\ BufferSize(buffers[1]) = BufferSize(buffers'[1])
    /\ last_known_digest(buffers[1]) = <<buffers'[1].digest, buffers'[1].last_known_digest_file_size>>

ReadPostcondition ==
    [][(operations' # operations /\ file_ret'.op = "read" /\ file_ret'.status = "ok")
          => ReadReturnsOneBlock(require_loaded(buffers[1], file_storage))]_vars

\* A read of more bytes than the rest of its block, of a block that was not loaded,
\* returned the rest of the block.
ReadToEndOfBlock ==
    /\ file_ret.op = "read"
    /\ file_ret.status = "ok"
    /\ file_ret.position % VALUE_BLOB_MAX_LENGTH = 1
    /\ file_ret.count > 1
    /\ Len(file_ret.compared) = 1
    /\ Len(file_content) > file_ret.position + 1
    /\ buffers[1].blocks[file_ret.position \div VALUE_BLOB_MAX_LENGTH + 1].kind = "KnownDigest"

\* C35: read is total.  Every read of a file whose blocks the storage has returns,
\* whatever the position and the count are, and returns at most count bytes.
ReadIsTotal ==
    [][(operations' # operations /\ file_ret'.op = "read")
          => (file_ret'.status = "ok" /\ Len(file_ret'.compared) <= file_ret'.count)]_vars

\* C36: the prefetcher never evicts and never loses data.  The prefetch of a read
\* keeps the number of blocks, turns only blocks that were NotLoaded into
\* Loaded(KnownDigest) blocks of the same digest and leaves every Loaded block,
\* the UnknownDigest blocks with their unflushed writes among them, as it was; the
\* read leaves the size, dirty_blocks and the digest status of the buffer alone.
PrefetchKept(blocks, out) ==
    /\ out.status = "ok"
    /\ Len(out.blocks) = Len(blocks)
    /\ \A i \in DOMAIN blocks :
          /\ BlockKept(blocks[i], out.blocks[i])
          /\ blocks[i].kind # "NotLoaded" => out.blocks[i] = blocks[i]

PrefetchOfRead(loaded, position, count) ==
    prefetch(loaded.prefetcher, loaded.blocks, position \div VALUE_BLOB_MAX_LENGTH,
             last_block_index(position, count, Len(loaded.blocks), FALSE).index, file_storage)

PrefetchedForRead(loaded, position, count, after) ==
    position \div VALUE_BLOB_MAX_LENGTH < Len(loaded.blocks) =>
        /\ PrefetchKept(loaded.blocks, PrefetchOfRead(loaded, position, count))
        /\ after.prefetcher = PrefetchOfRead(loaded, position, count).prefetcher
        /\ \A i \in DOMAIN loaded.blocks :
              BlockKept(PrefetchOfRead(loaded, position, count).blocks[i], after.blocks[i])
        /\ after.size = loaded.size
        /\ after.dirty_blocks = loaded.dirty_blocks
        /\ after.digest = loaded.digest
        /\ after.last_known_digest_file_size = loaded.last_known_digest_file_size

PrefetcherNeverEvicts ==
    [][(operations' # operations /\ file_ret'.op = "read" /\ file_ret'.status = "ok")
          => PrefetchedForRead(require_loaded(buffers[1], file_storage).buffer,
                               file_ret'.position, file_ret'.count, buffers'[1])]_vars

\* After a write left an UnknownDigest block, a read had a block loaded that lies
\* behind the blocks it touched, and the written block is still there.
PrefetchedBesideUnflushedWrite ==
    /\ operations = 2
    /\ file_ret.op = "read"
    /\ file_ret.status = "ok"
    /\ \E j \in DOMAIN buffers[1].blocks :
          /\ buffers[1].blocks[j].kind = "UnknownDigest"
          /\ (j - 1) \in Range(buffers[1].dirty_blocks)
    /\ \E i \in DOMAIN buffers[1].blocks :
          /\ i - 1 > (file_ret.position + file_ret.count) \div VALUE_BLOB_MAX_LENGTH
          /\ buffers[1].blocks[i].kind = "KnownDigest"
          /\ (i - 1) \notin Range(buffers[1].dirty_blocks)

\* C37: every read registers the blocks it touches with the prefetcher.  After a
\* read of one byte or more that touched the blocks first to last, both included,
\* these block indices, at most max_number_of_blocks_tracked of them, are among
\* the recently requested blocks of the prefetcher.
TouchedBlocks(loaded, position, count) ==
    (position \div VALUE_BLOB_MAX_LENGTH) ..
        Min(Min((position + count - 1) \div VALUE_BLOB_MAX_LENGTH, Len(loaded.blocks) - 1),
            position \div VALUE_BLOB_MAX_LENGTH + max_number_of_blocks_tracked - 1)

ReadRegistersTouchedBlocks ==
    [][(operations' # operations /\ file_ret'.op = "read" /\ file_ret'.status = "ok"
           /\ file_ret'.count >= 1)
          => TouchedBlocks(require_loaded(buffers[1], file_storage).buffer,
                           file_ret'.position, file_ret'.count)
                \subseteq Range(buffers'[1].prefetcher)]_vars

\* A stored file that is read while the storage loses values.
NextLossy ==
    \/ ReadAlone
    \/ StorageLoses

SpecLossy == InitRead /\ [][NextLossy]_vars

\* C38: a failed prefetch load is tolerated.  A read of one byte or more whose own
\* blocks are loaded or can be loaded returns the bytes of the block it asked for,
\* whether or not the blocks that the prefetcher predicted can be loaded.
Loadable(block) ==
    block.kind # "NotLoaded" \/ load(block.digest, block.size, file_storage).status = "ok"

ReadTolerates(out, position, count) ==
    (/\ out.status = "ok"
     /\ position \div VALUE_BLOB_MAX_LENGTH < Len(out.buffer.blocks)
     /\ \A index \in TouchedBlocks(out.buffer, position, count) :
           Loadable(out.buffer.blocks[index + 1]))
      => /\ file_ret'.status = "ok"
         /\ ReadFromOneBlock(out.buffer, position, count, file_ret'.compared)

FailedPrefetchTolerated ==
    [][(operations' # operations /\ file_ret'.op = "read" /\ file_ret'.count >= 1)
          => ReadTolerates(require_loaded(buffers[1], file_storage),
                           file_ret'.position, file_ret'.count)]_vars

(***************************************************************************)
(* ShardedStorage over InMemoryTreeStorage shards.  A digest is routed to  *)
(* one shard, so the maps of the shards have no key in common:             *)
(* reference_to_tree holds all of them, and the map of a shard is the part *)
(* of it with the digests that are routed to the shard.                    *)
(***************************************************************************)
ShardCount == 2

\* The number that the last eight bytes of a digest are.  The hash spreads the
\* digests over the numbers: here a tree with a child has the number of its child
\* (trees 1 and 2) or another one (tree 3 and its children).
simplified_digest(reference) == (reference + 1) \div 2

get_shard_index(reference, shard_count) == simplified_digest(reference) % shard_count

ShardMap(m, shard_index) ==
    [d \in {x \in DOMAIN m : get_shard_index(x, ShardCount) = shard_index} |-> m[d]]

\* The maps of all shards after the shard with shard_index has become shard.
WithShard(m, shard_index, shard) ==
    [d \in {x \in DOMAIN m : get_shard_index(x, ShardCount) # shard_index} \cup DOMAIN shard |->
        IF d \in DOMAIN shard THEN shard[d] ELSE m[d]]

OfShard(m, shard_index, out) == [out EXCEPT !.m = WithShard(m, shard_index, out.m)]

\* ShardedStorage::store_tree
ShardedStoreTree(m, tree, digest) ==
    OfShard(m, get_shard_index(digest, ShardCount),
            MemStoreTree(ShardMap(m, get_shard_index(digest, ShardCount)), tree, digest))

\* ShardedStorage::load_tree
ShardedLoadTree(m, reference) ==
    OfShard(m, get_shard_index(reference, ShardCount),
            MemLoadTree(ShardMap(m, get_shard_index(reference, ShardCount)), reference))

ChildrenHeld(tree) == \A i \in DOMAIN tree.children : tree.children[i].impl # None

StoredTreeSharded(out, tree) ==
    /\ reference_to_tree' = out.m
    /\ held' = IF out.status = "ok" THEN AddRefs(held, <<out.reference>>) ELSE held
    /\ gc_removed' = {}
    /\ ret' = Observed("store_tree", out.status,
                       [digest |-> out.reference.digest, children_held |-> ChildrenHeld(tree),
                        children |-> RefDigests(tree.children)])

StoreTreeSharded ==
    /\ \E d \in scope.digests : \E tree \in CallerTrees(d) :
          StoredTreeSharded(ShardedStoreTree(reference_to_tree, tree, d), tree)
    /\ UNCHANGED <<other_vars, scope, engine, sql_vars, entries>>

LoadedTreeSharded(out) ==
    /\ reference_to_tree' = out.m
    /\ held' = IF out.status = "ok"
               THEN AddRefs(held, <<out.reference>> \o out.tree.children)
               ELSE held
    /\ gc_removed' = {}
    /\ ret' = Observed("load_tree", out.status,
                       [digest |-> out.reference.digest,
                        tree |-> IF out.status = "ok"
                                 THEN HashedTreeFrom(out.tree.blob, RefDigests(out.tree.children))
                                 ELSE None])

LoadTreeSharded ==
    /\ \E d \in scope.digests : LoadedTreeSharded(ShardedLoadTree(reference_to_tree, d))
    /\ UNCHANGED <<other_vars, scope, engine, sql_vars, entries>>

InitSharded ==
    /\ scope = Scope(Digests, {}, {"store_tree", "load_tree"})
    /\ engine = "mem"
    /\ StorageEmpty
    /\ FileInit /\ SegmentedInit /\ NoTasks /\ SortedTreeInit

NextSharded ==
    \/ StoreTreeSharded
    \/ LoadTreeSharded
    \/ CloneReference
    \/ DropReference

SpecSharded == InitSharded /\ [][NextSharded]_vars

\* C39: ShardedStorage keeps the store contract for trees with children.  A
\* store_tree of a tree whose children were stored and whose references the caller
\* holds succeeds, whichever shards the tree and its children are routed to; a tree
\* that was stored and is held is loaded from the shard it was stored in, and
\* load_tree returns the tree that was stored.
StoredAndHeldLoads(d) ==
    (\E r \in DOMAIN held : r.digest = d) =>
        /\ ShardedLoadTree(reference_to_tree, d).status = "ok"
        /\ ShardedLoadTree(reference_to_tree, d).tree.blob = TreeUniverse[d].blob
        /\ RefDigests(ShardedLoadTree(reference_to_tree, d).tree.children)
              = TreeUniverse[d].children

ShardedStoreContract ==
    /\ (ret.op = "store_tree" /\ ret.detail.children_held) => ret.status = "ok"
    /\ \A d \in Digests : StoredAndHeldLoads(d)
    /\ (ret.op = "load_tree" /\ ret.status = "ok") => ret.detail.tree = ret.detail.digest

(***************************************************************************)
(* The sorted tree: a node is stored as a tree without children whose blob *)
(* is the serialized list of entries.  The storage is the one that         *)
(* sorted_tree.rs is written for: load_tree returns the tree of a digest   *)
(* or nothing.                                                             *)
(***************************************************************************)
MaxKey == 3
MaxValue == 2
MaxInsertions == 3

Keys == 1..MaxKey
Values == 1..MaxValue

Node(node_entries) == [entries |-> node_entries]

\* postcard::to_stdvec of a Node: the number of entries, then key and value of each.
RECURSIVE EntryBytes(_)
EntryBytes(node_entries) ==
    IF node_entries = <<>> THEN <<>>
    ELSE <<Head(node_entries)[1], Head(node_entries)[2]>> \o EntryBytes(Tail(node_entries))

postcard_to_stdvec(node) == <<Len(node.entries)>> \o EntryBytes(node.entries)

\* postcard::from_bytes::<Node<Key, Value>>
postcard_node_from_bytes(bytes) ==
    Node([i \in 1..bytes[1] |-> <<bytes[2 * i], bytes[2 * i + 1]>>])

store_node(storage, node) ==
    [storage |-> storage \cup {HashedValue(Tree(postcard_to_stdvec(node), <<>>))},
     digest |-> HashedValue(Tree(postcard_to_stdvec(node), <<>>)).digest]

load_node(storage, root) ==
    IF \E hashed \in storage : hashed.digest = root
    THEN [status |-> "ok",
          node |-> postcard_node_from_bytes(
                       (CHOOSE hashed \in storage : hashed.digest = root).value.blob)]
    ELSE [status |-> "panic", node |-> Node(<<>>)]

new_tree(storage) == store_node(storage, Node(<<>>))

insert(storage, root, key, value) ==
    store_node(storage, Node(Append(load_node(storage, root).node.entries, <<key, value>>)))

FirstMatch(node_entries, key) ==
    IF \E i \in DOMAIN node_entries : node_entries[i][1] = key
    THEN node_entries[MinOf({i \in DOMAIN node_entries : node_entries[i][1] = key})][2]
    ELSE None

find(storage, root, key) == FirstMatch(load_node(storage, root).node.entries, key)

\* The calls of the tests: every insert is made on the root of the insert before.
Version(root, oracle) == [root |-> root, oracle |-> oracle]

NewTree ==
    /\ versions = <<>>
    /\ versions' = <<Version(new_tree(node_storage).digest, EmptyMap)>>
    /\ node_storage' = new_tree(node_storage).storage
    /\ sorted_ret' = [op |-> "new_tree"]
    /\ UNCHANGED <<storage_vars, file_vars, segmented_vars, task_vars>>

Inserted(out, key, value) ==
    /\ versions' = Append(versions,
                          Version(out.digest, MapPut(versions[Len(versions)].oracle, key, value)))
    /\ node_storage' = out.storage
    /\ sorted_ret' = [op |-> "insert", key |-> key, value |-> value]

Insert ==
    /\ versions # <<>>
    /\ Len(versions) <= MaxInsertions
    /\ load_node(node_storage, versions[Len(versions)].root).status = "ok"
    /\ \E key \in Keys : \E value \in Values :
          Inserted(insert(node_storage, versions[Len(versions)].root, key, value), key, value)
    /\ UNCHANGED <<storage_vars, file_vars, segmented_vars, task_vars>>

Find ==
    /\ \E version \in DOMAIN versions : \E key \in Keys :
          sorted_ret' = [op |-> "find", version |-> version, key |-> key,
                         found |-> find(node_storage, versions[version].root, key)]
    /\ UNCHANGED <<storage_vars, file_vars, segmented_vars, task_vars, versions, node_storage>>

InitSortedTree == StorageIdle /\ FileInit /\ SegmentedInit /\ NoTasks /\ SortedTreeInit

NextSortedTree ==
    \/ NewTree
    \/ Insert
    \/ Find

SpecSortedTree == InitSortedTree /\ [][NextSortedTree]_vars

\* C40: the sorted tree refines a map.  The entries of the latest root are those of
\* the map that the inserts built, in ascending order of the keys, one for each key
\* with the value that was inserted last; find on a root returns what the map of
\* that root has for the key, for the latest root and for every older one.
RECURSIVE MapEntries(_, _)
MapEntries(oracle, keys) ==
    IF keys = {} THEN <<>>
    ELSE <<<<MinOf(keys), oracle[MinOf(keys)]>>>> \o MapEntries(oracle, keys \ {MinOf(keys)})

Lookup(oracle, key) == IF key \in DOMAIN oracle THEN oracle[key] ELSE None

SortedTreeRefinesMap ==
    /\ versions # <<>> =>
          load_node(node_storage, versions[Len(versions)].root).node.entries
             = MapEntries(versions[Len(versions)].oracle, DOMAIN versions[Len(versions)].oracle)
    /\ \A version \in DOMAIN versions : \A key \in Keys :
          find(node_storage, versions[version].root, key)
             = Lookup(versions[version].oracle, key)
    /\ sorted_ret.op = "find" =>
          sorted_ret.found = Lookup(versions[sorted_ret.version].oracle, sorted_ret.key)

============================================================================
